---- MODULE Spec2Model ----
(***************************************************************************)
(* A model of the file-system tool layer of SimpleDevWinMCP                *)
(* (src/file_system.py): the path resolver safe_path, the text layer of    *)
(* open(..., 'r'/'w', encoding=...), and the registered file tools acting  *)
(* on a file-system tree.                                                  *)
(*                                                                         *)
(* Strings are sequences of one-character strings, a path is a sequence of *)
(* names, a file holds a sequence of bytes.  The modelled file system has  *)
(* no symbolic links, so Path.resolve() is the lexical collapse of '.' and *)
(* '..' against the working directory.                                     *)
(***************************************************************************)
EXTENDS Integers, Sequences, FiniteSets, TLC

VARIABLES
    fs,       \* the file-system tree: path -> entry
    platform, \* "posix" or "nt": decides os.linesep of the text layer
    pc,       \* position of the scenario a specification runs
    args,     \* the arguments of the last (or pending) call
    result,   \* what the last call returned
    before    \* history: the tree as the last modifying call found it

vars == <<fs, platform, pc, args, result, before>>

\* ---------------------------------------------------------------- bounds
MaxPathSegs == 2    \* segments of a caller-supplied path given to safe_path
MaxBaseSegs == 2    \* segments of a caller-supplied base given to safe_path
MaxDepth    == 3    \* depth of the tree below the working directory
MaxTextLen  == 3    \* characters of a content written and read back
MaxEntries  == 3    \* entries that exist below the working directory at once
MaxJsonTokens == 9  \* tokens of a JSON text found in a file

\* ------------------------------------------------------- sequence helpers
RECURSIVE SeqsUpTo(_, _)
SeqsUpTo(S, n) ==
    IF n = 0 THEN {<<>>}
    ELSE LET shorter == SeqsUpTo(S, n - 1)
         IN  shorter \cup {Append(s, x) : s \in {t \in shorter : Len(t) = n - 1}, x \in S}

IsPrefix(p, s) == Len(p) <= Len(s) /\ SubSeq(s, 1, Len(p)) = p

RECURSIVE Flatten(_)
Flatten(ss) == IF ss = <<>> THEN <<>> ELSE Head(ss) \o Flatten(Tail(ss))

\* ------------------------------------------------------------------ paths
\* File and directory names.  "bc" begins with "b"; "." and ".." are the
\* special segments of a path string.
NameA  == "a"
NameB  == "b"
NameBC == "bc"
Dot    == "."
DotDot == ".."
PathNames == {NameA, NameB, NameBC}
Segments  == PathNames \cup {Dot, DotDot}

\* The characters of a name.
NameChars(n) ==
    IF n = NameBC THEN <<"b", "c">>
    ELSE IF n = "a.t" THEN <<"a", ".", "t">>
    ELSE IF n = "at" THEN <<"a", "t">>
    ELSE IF n = ".t" THEN <<".", "t">>
    ELSE <<n>>

\* The working directory of the server process, an absolute resolved path.
Cwd == <<NameA>>

\* A caller-supplied path string: absolute or relative, with its segments.
RawPath(abs, segs) == [abs |-> abs, segs |-> segs]
\* The absent base_path argument (None; the empty string behaves alike).
None == [abs |-> FALSE, segs |-> <<"None">>]

\* str(Path): "/" for the root, else each name preceded by the separator.
PathStr(p) == IF p = <<>> THEN <<"/">> ELSE Flatten([i \in 1..Len(p) |-> <<"/">> \o NameChars(p[i])])

\* str.startswith
StartsWith(s, prefix) == IsPrefix(prefix, s)

\* The lexical part of Path.resolve(): drop '.', let '..' remove the last
\* name (the root is its own parent).
RECURSIVE Collapse(_, _)
Collapse(done, segs) ==
    IF segs = <<>> THEN done
    ELSE LET s == Head(segs)
         IN  IF s = Dot THEN Collapse(done, Tail(segs))
             ELSE IF s = DotDot
                  THEN Collapse(IF done = <<>> THEN <<>> ELSE SubSeq(done, 1, Len(done) - 1),
                                Tail(segs))
                  ELSE Collapse(Append(done, s), Tail(segs))

\* Path(raw).resolve(): a relative path is taken from the working directory.
Resolve(raw) == Collapse(IF raw.abs THEN <<>> ELSE Cwd, raw.segs)

\* base / path: an absolute right operand replaces the left one.
JoinPath(base, raw) == IF raw.abs THEN raw ELSE RawPath(TRUE, base \o raw.segs)

NoResult    == [kind |-> "none", path |-> <<>>]
Returned(p) == [kind |-> "path", path |-> p]
ValueError  == [kind |-> "ValueError", path |-> <<>>]

\* safe_path: with a base, the resolved target is kept when its string begins
\* with the resolved base's string; without one the path is only resolved.
safe_path(path, base_path) ==
    IF base_path # None
    THEN LET base   == Resolve(base_path)
             target == Resolve(JoinPath(base, path))
         IN  IF ~StartsWith(PathStr(target), PathStr(base))
             THEN ValueError
             ELSE Returned(target)
    ELSE Returned(Resolve(path))

\* ------------------------------------------------------- file-system tree
\* Names used below the working directory, and the paths the tree can hold.
FsNames == {NameA, NameB}
FsRel   == SeqsUpTo(FsNames, MaxDepth)
FsPaths == {Cwd \o r : r \in FsRel} \cup {SubSeq(Cwd, 1, n) : n \in 0..Len(Cwd)}

Absent    == [type |-> "none", data |-> <<>>]
Directory == [type |-> "dir",  data |-> <<>>]
File(bytes) == [type |-> "file", data |-> bytes]

Parent(p) == IF p = <<>> THEN <<>> ELSE SubSeq(p, 1, Len(p) - 1)
Name(p)   == p[Len(p)]
Ancestors(p) == {SubSeq(p, 1, n) : n \in 0..(Len(p) - 1)}
Under(d) == {q \in FsPaths : IsPrefix(d, q) /\ q # d}

\* Path.exists(), Path.is_file(), Path.is_dir()
Exists(f, p) == p \in DOMAIN f /\ f[p].type # "none"
IsFile(f, p) == p \in DOMAIN f /\ f[p].type = "file"
IsDir(f, p)  == p \in DOMAIN f /\ f[p].type = "dir"

\* The OS refuses to walk through an ancestor that is a regular file.
BlockedByFile(f, p) == \E q \in Ancestors(p) : IsFile(f, q)

Outcome(f, e) == [fs |-> f, err |-> e]
Ok == "ok"

\* os.mkdir
OsMkdir(f, p) ==
    IF Exists(f, p) THEN Outcome(f, "FileExistsError")
    ELSE IF BlockedByFile(f, p) THEN Outcome(f, "NotADirectoryError")
    ELSE IF ~Exists(f, Parent(p)) THEN Outcome(f, "FileNotFoundError")
    ELSE Outcome([f EXCEPT ![p] = Directory], Ok)

\* Path.mkdir(parents=..., exist_ok=...)
RECURSIVE Mkdir(_, _, _, _)
Mkdir(f, p, parents, exist_ok) ==
    LET first == OsMkdir(f, p)
    IN  IF first.err = Ok THEN first
        ELSE IF first.err = "FileNotFoundError"
        THEN IF ~parents \/ p = <<>> THEN first
             ELSE LET up == Mkdir(f, Parent(p), TRUE, TRUE)
                  IN  IF up.err # Ok THEN up ELSE Mkdir(up.fs, p, FALSE, exist_ok)
        ELSE IF ~exist_ok \/ ~IsDir(f, p) THEN first
        ELSE Outcome(f, Ok)

\* ------------------------------------------------------------- text layer
\* Characters of a Python str, and the bytes the codecs make of them.  An
\* ASCII character is its own byte; E_ACUTE stands for a non-ASCII letter.
CR == "CR"
LF == "LF"
E_ACUTE == "e-acute"
\* A lone surrogate code point (U+D800): a str may hold it, no codec encodes it.
SURROGATE == "lone-surrogate"
Chars == {"a", CR, LF, E_ACUTE}
Encodings == {"utf-8", "latin-1", "ascii"}

\* codecs: one character to bytes, under an encoding ("" when it has none)
EncodeChar(c, encoding) ==
    IF c = SURROGATE THEN <<"!">>
    ELSE IF c # E_ACUTE THEN <<c>>
    ELSE IF encoding = "utf-8" THEN <<"xC3", "xA9">>
    ELSE IF encoding = "latin-1" THEN <<"xE9">>
    ELSE <<"!">>

Encodable(text, encoding) ==
    \A i \in 1..Len(text) : EncodeChar(text[i], encoding) # <<"!">>

Encode(text, encoding) == Flatten([i \in 1..Len(text) |-> EncodeChar(text[i], encoding)])

HighBytes == {"xC3", "xA9", "xE9"}

\* codecs: bytes to characters; <<"!">> stands for UnicodeDecodeError
RECURSIVE Decode(_, _)
Decode(bytes, encoding) ==
    IF bytes = <<>> THEN <<>>
    ELSE LET b == Head(bytes)
         IN  IF b \notin HighBytes
             THEN LET rest == Decode(Tail(bytes), encoding)
                  IN  IF rest = <<"!">> THEN rest ELSE <<b>> \o rest
             ELSE IF encoding = "latin-1"
             THEN LET rest == Decode(Tail(bytes), encoding)
                      c == IF b = "xE9" THEN E_ACUTE
                           ELSE IF b = "xC3" THEN "A-tilde" ELSE "copyright"
                  IN  IF rest = <<"!">> THEN rest ELSE <<c>> \o rest
             ELSE IF encoding = "utf-8" /\ b = "xC3" /\ Len(bytes) >= 2 /\ bytes[2] = "xA9"
             THEN LET rest == Decode(SubSeq(bytes, 3, Len(bytes)), encoding)
                  IN  IF rest = <<"!">> THEN rest ELSE <<E_ACUTE>> \o rest
             ELSE <<"!">>

\* os.linesep
LineSep(plat) == IF plat = "nt" THEN <<CR, LF>> ELSE <<LF>>

\* open(..., 'w') leaves newline=None: every '\n' written becomes os.linesep
TranslateOut(text, plat) ==
    Flatten([i \in 1..Len(text) |-> IF text[i] = LF THEN LineSep(plat) ELSE <<text[i]>>])

\* open(..., 'r') leaves newline=None (universal newlines): '\r\n' and '\r'
\* are read as '\n'
RECURSIVE TranslateIn(_)
TranslateIn(text) ==
    IF text = <<>> THEN <<>>
    ELSE IF Head(text) = CR
    THEN IF Len(text) >= 2 /\ text[2] = LF
         THEN <<LF>> \o TranslateIn(SubSeq(text, 3, Len(text)))
         ELSE <<LF>> \o TranslateIn(Tail(text))
    ELSE <<Head(text)>> \o TranslateIn(Tail(text))

\* open(path, 'w'): the file is created or truncated before anything else
OpenForWrite(f, p) ==
    IF IsDir(f, p) THEN Outcome(f, "IsADirectoryError")
    ELSE IF BlockedByFile(f, p) THEN Outcome(f, "NotADirectoryError")
    ELSE IF ~Exists(f, Parent(p)) THEN Outcome(f, "FileNotFoundError")
    ELSE Outcome([f EXCEPT ![p] = File(<<>>)], Ok)

\* with open(path, 'w', encoding=encoding) as f: f.write(text)
WriteText(f, plat, p, text, encoding) ==
    LET opened == OpenForWrite(f, p)
    IN  IF opened.err # Ok THEN opened
        ELSE IF encoding \notin Encodings THEN Outcome(opened.fs, "LookupError")
        ELSE IF ~Encodable(text, encoding) THEN Outcome(opened.fs, "UnicodeEncodeError")
        ELSE Outcome([f EXCEPT ![p] = File(Encode(TranslateOut(text, plat), encoding))], Ok)

\* with open(path, 'r', encoding=encoding) as f: f.read()
\* [err, text]: the decoded text with newlines translated
ReadText(f, p, encoding) ==
    IF encoding \notin Encodings THEN [err |-> "LookupError", text |-> <<>>]
    ELSE LET decoded == Decode(f[p].data, encoding)
         IN  IF decoded = <<"!">> THEN [err |-> "UnicodeDecodeError", text |-> <<>>]
             ELSE [err |-> Ok, text |-> TranslateIn(decoded)]

\* ------------------------------------------------------------- file tools
\* What a tool returns: a message, with the text it carries (for read_file,
\* the text is the whole return value).
Msg(m)  == [kind |-> "error", msg |-> m, text |-> <<>>]
Done(m) == [kind |-> "ok", msg |-> m, text |-> <<>>]
Text(t) == [kind |-> "ok", msg |-> "", text |-> t]
Reply(f, r) == [fs |-> f, ret |-> r]

\* safe_path(file_path) as the tools call it: no base
ToolPath(file_path) == safe_path(file_path, None).path

read_file(f, file_path, encoding) ==
    LET path == ToolPath(file_path)
    IN  IF ~Exists(f, path) THEN Reply(f, Msg("does not exist"))
        ELSE IF ~IsFile(f, path) THEN Reply(f, Msg("is not a file"))
        ELSE LET got == ReadText(f, path, encoding)
             IN  IF got.err # Ok THEN Reply(f, Msg("Error reading file"))
                 ELSE Reply(f, Text(got.text))

write_file(f, plat, file_path, content, encoding, create_dirs) ==
    LET path == ToolPath(file_path)
        made == IF create_dirs THEN Mkdir(f, Parent(path), TRUE, TRUE) ELSE Outcome(f, Ok)
    IN  IF made.err # Ok THEN Reply(made.fs, Msg("Error writing file"))
        ELSE LET written == WriteText(made.fs, plat, path, content, encoding)
             IN  IF written.err # Ok THEN Reply(written.fs, Msg("Error writing file"))
                 ELSE Reply(written.fs, Done("Successfully wrote"))

\* A faulty variant, for comparison: no existence check, and mkdir told that an existing directory is fine
create_directory_exist_ok(f, dir_path, parents) ==
    LET path == ToolPath(dir_path)
        made == Mkdir(f, path, parents, TRUE)
    IN  IF made.err # Ok THEN Reply(made.fs, Msg("Error creating directory"))
        ELSE Reply(made.fs, Done("Successfully created directory"))

create_directory(f, dir_path, parents) ==
    LET path == ToolPath(dir_path)
    IN  IF Exists(f, path) THEN Reply(f, Msg("already exists"))
        ELSE LET made == Mkdir(f, path, parents, FALSE)
             IN  IF made.err # Ok THEN Reply(made.fs, Msg("Error creating directory"))
                 ELSE Reply(made.fs, Done("Successfully created directory"))

\* A faulty variant, for comparison: removes the directory and its direct children only
Rmtree_children_only(f, d) ==
    [q \in DOMAIN f |-> IF q = d \/ (q # <<>> /\ Parent(q) = d) THEN Absent ELSE f[q]]

\* shutil.rmtree
Rmtree(f, d) == [q \in DOMAIN f |-> IF IsPrefix(d, q) THEN Absent ELSE f[q]]

\* A faulty variant, for comparison: removes the directory whether it is empty or not
Rmdir_nonempty(f, d) ==
    Outcome([q \in DOMAIN f |-> IF IsPrefix(d, q) THEN Absent ELSE f[q]], Ok)

\* Path.rmdir: only an empty directory can be removed
Rmdir(f, d) ==
    IF \E q \in Under(d) : Exists(f, q) THEN Outcome(f, "OSError")
    ELSE Outcome([f EXCEPT ![d] = Absent], Ok)

delete_directory(f, dir_path, recursive) ==
    LET path == ToolPath(dir_path)
    IN  IF ~Exists(f, path) THEN Reply(f, Msg("does not exist"))
        ELSE IF ~IsDir(f, path) THEN Reply(f, Msg("is not a directory"))
        ELSE IF recursive
        THEN Reply(Rmtree(f, path), Done("Successfully deleted directory and all its contents"))
        ELSE LET removed == Rmdir(f, path)
             IN  IF removed.err # Ok THEN Reply(removed.fs, Msg("Error deleting directory"))
                 ELSE Reply(removed.fs, Done("Successfully deleted empty directory"))

\* shutil.copy2(src, dst): a destination that is a directory receives the
\* file under the source's name; the bytes are copied as they are
Copy2Target(f, src, dst) == IF IsDir(f, dst) THEN Append(dst, Name(src)) ELSE dst

Copy2(f, src, dst) ==
    LET target == Copy2Target(f, src, dst)
    IN  IF target = src THEN Outcome(f, "SameFileError")
        ELSE IF IsDir(f, target) THEN Outcome(f, "IsADirectoryError")
        ELSE IF BlockedByFile(f, target) THEN Outcome(f, "NotADirectoryError")
        ELSE IF ~Exists(f, Parent(target)) THEN Outcome(f, "FileNotFoundError")
        ELSE Outcome([f EXCEPT ![target] = File(f[src].data)], Ok)

\* A faulty variant, for comparison: the destination is not checked: the copy always goes ahead
copy_file_unchecked(f, source_path, destination_path, overwrite) ==
    LET src == ToolPath(source_path)
        dst == ToolPath(destination_path)
    IN  IF ~Exists(f, src) THEN Reply(f, Msg("Source file does not exist"))
        ELSE IF ~IsFile(f, src) THEN Reply(f, Msg("Source is not a file"))
        ELSE LET made == Mkdir(f, Parent(dst), TRUE, TRUE)
             IN  IF made.err # Ok THEN Reply(made.fs, Msg("Error copying file"))
                 ELSE LET copied == Copy2(made.fs, src, dst)
                      IN  IF copied.err # Ok THEN Reply(copied.fs, Msg("Error copying file"))
                          ELSE Reply(copied.fs, Done("Successfully copied"))

copy_file(f, source_path, destination_path, overwrite) ==
    LET src == ToolPath(source_path)
        dst == ToolPath(destination_path)
    IN  IF ~Exists(f, src) THEN Reply(f, Msg("Source file does not exist"))
        ELSE IF ~IsFile(f, src) THEN Reply(f, Msg("Source is not a file"))
        ELSE IF Exists(f, dst) /\ ~overwrite THEN Reply(f, Msg("Destination already exists"))
        ELSE LET made == Mkdir(f, Parent(dst), TRUE, TRUE)
             IN  IF made.err # Ok THEN Reply(made.fs, Msg("Error copying file"))
                 ELSE LET copied == Copy2(made.fs, src, dst)
                      IN  IF copied.err # Ok THEN Reply(copied.fs, Msg("Error copying file"))
                          ELSE Reply(copied.fs, Done("Successfully copied"))

\* ------------------------------------------------------------------- json
\* A faulty variant, for comparison: the files next to the file go with it
Unlink_siblings(f, p) ==
    Outcome([q \in DOMAIN f |->
                IF Parent(q) = Parent(p) /\ IsFile(f, q) THEN Absent ELSE f[q]], Ok)

\* Path.unlink
Unlink(f, p) == Outcome([f EXCEPT ![p] = Absent], Ok)

delete_file(f, file_path) ==
    LET path == ToolPath(file_path)
    IN  IF ~Exists(f, path) THEN Reply(f, Msg("does not exist"))
        ELSE IF ~IsFile(f, path) THEN Reply(f, Msg("is not a file"))
        ELSE Reply(Unlink(f, path).fs, Done("Successfully deleted file"))

\* os.rename of an entry with all that is below it
MoveTree(f, src, real) ==
    [q \in DOMAIN f |->
        IF IsPrefix(real, q)
        THEN LET from == src \o SubSeq(q, Len(real) + 1, Len(q))
             IN  IF from \in DOMAIN f THEN f[from] ELSE Absent
        ELSE IF IsPrefix(src, q) THEN Absent
        ELSE f[q]]

\* os.rename(src, real_dst) within one file system, and what shutil.move
\* does when it fails: a directory is neither moved into itself nor onto an
\* existing file
Rename(f, src, real) ==
    IF src = real THEN Outcome(f, Ok)
    ELSE IF IsDir(f, src) /\ IsPrefix(src, real) THEN Outcome(f, "shutil.Error")
    ELSE IF IsDir(f, src) /\ Exists(f, real) THEN Outcome(f, "FileExistsError")
    ELSE IF IsDir(f, real) THEN Outcome(f, "IsADirectoryError")
    ELSE IF BlockedByFile(f, real) THEN Outcome(f, "NotADirectoryError")
    ELSE IF ~Exists(f, Parent(real)) THEN Outcome(f, "FileNotFoundError")
    ELSE Outcome(MoveTree(f, src, real), Ok)

\* shutil.move(src, dst): a destination that is a directory receives the
\* source under its own name, unless that name is taken
MoveTarget(f, src, dst) == IF IsDir(f, dst) /\ src # dst THEN Append(dst, Name(src)) ELSE dst

ShutilMove(f, src, dst) ==
    LET real_dst == MoveTarget(f, src, dst)
    IN  IF IsDir(f, dst) /\ src # dst /\ Exists(f, real_dst) THEN Outcome(f, "shutil.Error")
        ELSE Rename(f, src, real_dst)

move_file(f, source_path, destination_path, overwrite) ==
    LET src == ToolPath(source_path)
        dst == ToolPath(destination_path)
    IN  IF ~Exists(f, src) THEN Reply(f, Msg("Source does not exist"))
        ELSE IF Exists(f, dst) /\ ~overwrite THEN Reply(f, Msg("Destination already exists"))
        ELSE LET made == Mkdir(f, Parent(dst), TRUE, TRUE)
             IN  IF made.err # Ok THEN Reply(made.fs, Msg("Error moving file"))
                 ELSE LET moved == ShutilMove(made.fs, src, dst)
                      IN  IF moved.err # Ok THEN Reply(moved.fs, Msg("Error moving file"))
                          ELSE Reply(moved.fs, Done("Successfully moved"))

\* json.load and json.dump(indent=2, ensure_ascii=False) on the characters
\* of a text.  A value is a tagged tuple: <<"num", repr>>, <<"str", chars>>,
\* <<"arr", items>>, <<"obj", pairs>> with pairs <<key chars, value>>.  The
\* literals true, false, null and exponents are outside the modelled texts;
\* of the constants NaN, Infinity and -Infinity that json.load takes as
\* floats, NaN is modelled.
QUOTE     == "QUOTE"
BACKSLASH == "BACKSLASH"
JsonWs    == {" ", LF, CR}
Digits    == {"0", "1"}

At(s, i) == IF i >= 1 /\ i <= Len(s) THEN s[i] ELSE "EOF"

Parsed(v, next) == [ok |-> TRUE, val |-> v, next |-> next]
ParseError == [ok |-> FALSE, val |-> <<>>, next |-> 0]

RECURSIVE SkipWs(_, _)
SkipWs(s, i) == IF At(s, i) \in JsonWs THEN SkipWs(s, i + 1) ELSE i

RECURSIVE DigitsEnd(_, _)
DigitsEnd(s, i) == IF At(s, i) \in Digits THEN DigitsEnd(s, i + 1) ELSE i

\* \uXXXX: the code point of four hexadecimal digits
Hex4(h) ==
    IF h = <<"0", "0", "e", "9">> THEN E_ACUTE
    ELSE IF h = <<"d", "8", "0", "0">> THEN SURROGATE
    ELSE "other-code-point"

\* json.decoder.scanstring (strict): from the character after the opening
\* quote to the closing one, escapes decoded
RECURSIVE ScanString(_, _, _)
ScanString(s, i, acc) ==
    LET c == At(s, i)
        e == At(s, i + 1)
    IN  IF c = "EOF" THEN ParseError
        ELSE IF c = QUOTE THEN Parsed(acc, i + 1)
        ELSE IF c = BACKSLASH
        THEN IF e \in {QUOTE, BACKSLASH, "/"} THEN ScanString(s, i + 2, Append(acc, e))
             ELSE IF e = "n" THEN ScanString(s, i + 2, Append(acc, LF))
             ELSE IF e = "u" /\ i + 5 <= Len(s)
             THEN ScanString(s, i + 6, Append(acc, Hex4(SubSeq(s, i + 2, i + 5))))
             ELSE ParseError
        ELSE IF c \in {LF, CR} THEN ParseError
        ELSE ScanString(s, i + 1, Append(acc, c))

\* repr of the float read from a fraction: trailing zeros go, one digit stays
RECURSIVE StripZeros(_)
StripZeros(frac) ==
    IF Len(frac) > 1 /\ frac[Len(frac)] = "0" THEN StripZeros(SubSeq(frac, 1, Len(frac) - 1))
    ELSE frac

\* json.scanner NUMBER_RE -?(0|[1-9]\d*)(\.\d+)? and int() / float() of the
\* match, kept as the repr that json.dump writes
ScanNumber(s, i) ==
    LET neg    == At(s, i) = "-"
        j      == IF neg THEN i + 1 ELSE i
        intEnd == IF At(s, j) = "0" THEN j + 1 ELSE DigitsEnd(s, j)
        int    == SubSeq(s, j, intEnd - 1)
        isFlt  == At(s, intEnd) = "." /\ At(s, intEnd + 1) \in Digits
        frcEnd == DigitsEnd(s, intEnd + 1)
        sign   == IF neg THEN <<"-">> ELSE <<>>
    IN  IF At(s, j) \notin Digits THEN ParseError
        ELSE IF isFlt
        THEN Parsed(<<"num", sign \o int \o <<".">> \o StripZeros(SubSeq(s, intEnd + 1, frcEnd - 1))>>,
                    frcEnd)
        ELSE Parsed(<<"num", IF int = <<"0">> THEN int ELSE sign \o int>>, intEnd)

\* dict(pairs): a repeated key keeps its first place and takes the last value
RECURSIVE MakeDict(_, _)
MakeDict(acc, pairs) ==
    IF pairs = <<>> THEN acc
    ELSE LET pair == Head(pairs)
             at   == {k \in 1..Len(acc) : acc[k][1] = pair[1]}
         IN  IF at = {} THEN MakeDict(Append(acc, pair), Tail(pairs))
             ELSE MakeDict([k \in 1..Len(acc) |-> IF k \in at THEN pair ELSE acc[k]], Tail(pairs))

\* json.scanner scan_once, json.decoder JSONArray and JSONObject
RECURSIVE ScanValue(_, _), ScanItems(_, _, _), ScanMembers(_, _, _)
ScanValue(s, i) ==
    LET c == At(s, i)
    IN  IF c = QUOTE
        THEN LET str == ScanString(s, i + 1, <<>>)
             IN  IF str.ok THEN Parsed(<<"str", str.val>>, str.next) ELSE ParseError
        ELSE IF c = "["
        THEN IF At(s, SkipWs(s, i + 1)) = "]" THEN Parsed(<<"arr", <<>>>>, SkipWs(s, i + 1) + 1)
             ELSE ScanItems(s, SkipWs(s, i + 1), <<>>)
        ELSE IF c = "{"
        THEN IF At(s, SkipWs(s, i + 1)) = "}" THEN Parsed(<<"obj", <<>>>>, SkipWs(s, i + 1) + 1)
             ELSE ScanMembers(s, SkipWs(s, i + 1), <<>>)
        ELSE IF c = "N" /\ At(s, i + 1) = "a" /\ At(s, i + 2) = "N"
        THEN Parsed(<<"num", <<"N", "a", "N">>>>, i + 3)
        ELSE IF c = "-" \/ c \in Digits THEN ScanNumber(s, i)
        ELSE ParseError

ScanItems(s, i, acc) ==
    LET item == ScanValue(s, i)
        j    == SkipWs(s, item.next)
    IN  IF ~item.ok THEN ParseError
        ELSE IF At(s, j) = "]" THEN Parsed(<<"arr", Append(acc, item.val)>>, j + 1)
        ELSE IF At(s, j) = "," THEN ScanItems(s, SkipWs(s, j + 1), Append(acc, item.val))
        ELSE ParseError

ScanMembers(s, i, acc) ==
    LET key   == ScanString(s, i + 1, <<>>)
        colon == SkipWs(s, key.next)
        item  == ScanValue(s, SkipWs(s, colon + 1))
        j     == SkipWs(s, item.next)
    IN  IF At(s, i) # QUOTE \/ ~key.ok THEN ParseError
        ELSE IF At(s, colon) # ":" THEN ParseError
        ELSE IF ~item.ok THEN ParseError
        ELSE IF At(s, j) = "}"
        THEN Parsed(<<"obj", MakeDict(<<>>, Append(acc, <<key.val, item.val>>))>>, j + 1)
        ELSE IF At(s, j) = ","
        THEN ScanMembers(s, SkipWs(s, j + 1), Append(acc, <<key.val, item.val>>))
        ELSE ParseError

\* json.load: one value, white space around it, nothing else
JsonLoad(text) ==
    LET v == ScanValue(text, SkipWs(text, 1))
    IN  IF v.ok /\ SkipWs(text, v.next) = Len(text) + 1 THEN v ELSE ParseError

\* json.encoder py_encode_basestring (ensure_ascii=False)
EscapeChar(c) ==
    IF c = QUOTE THEN <<BACKSLASH, QUOTE>>
    ELSE IF c = BACKSLASH THEN <<BACKSLASH, BACKSLASH>>
    ELSE IF c = LF THEN <<BACKSLASH, "n">>
    ELSE IF c = CR THEN <<BACKSLASH, "r">>
    ELSE <<c>>

EncodeString(chars) ==
    <<QUOTE>> \o Flatten([k \in 1..Len(chars) |-> EscapeChar(chars[k])]) \o <<QUOTE>>

IsScalar(v) == v[1] \in {"num", "str"}
ScalarText(v) == IF v[1] = "str" THEN EncodeString(v[2]) ELSE v[2]

\* '\n' and the indentation of a nesting level (indent=2)
NewlineIndent(level) == <<LF>> \o [k \in 1..(2 * level) |-> " "]

\* json.encoder _make_iterencode: the chunks json.dump writes one by one
RECURSIVE IterEncode(_, _)
IterEncode(v, level) ==
    IF IsScalar(v) THEN <<ScalarText(v)>>
    ELSE IF v[2] = <<>> THEN IF v[1] = "arr" THEN << <<"[", "]">> >> ELSE << <<"{", "}">> >>
    ELSE IF v[1] = "arr"
    THEN LET item(k) ==
                 LET buf == IF k = 1 THEN <<"[">> \o NewlineIndent(level + 1)
                            ELSE <<",">> \o NewlineIndent(level + 1)
                 IN  IF IsScalar(v[2][k]) THEN <<buf \o ScalarText(v[2][k])>>
                     ELSE <<buf>> \o IterEncode(v[2][k], level + 1)
         IN  Flatten([k \in 1..Len(v[2]) |-> item(k)]) \o <<NewlineIndent(level), <<"]">>>>
    ELSE LET member(k) ==
                 (IF k = 1 THEN <<>> ELSE << <<",">> \o NewlineIndent(level + 1) >>)
                 \o <<EncodeString(v[2][k][1]), <<":", " ">>>>
                 \o IterEncode(v[2][k][2], level + 1)
         IN  << <<"{">>, NewlineIndent(level + 1) >>
             \o Flatten([k \in 1..Len(v[2]) |-> member(k)])
             \o <<NewlineIndent(level), <<"}">>>>

\* f.write(chunk) for each chunk: the chunks before the first one the codec
\* refuses reach the file
RECURSIVE WriteChunks(_, _, _, _)
WriteChunks(bytes, chunks, plat, encoding) ==
    IF chunks = <<>> THEN [bytes |-> bytes, err |-> Ok]
    ELSE IF ~Encodable(Head(chunks), encoding) THEN [bytes |-> bytes, err |-> "UnicodeEncodeError"]
    ELSE WriteChunks(bytes \o Encode(TranslateOut(Head(chunks), plat), encoding),
                     Tail(chunks), plat, encoding)

\* with open(path, 'w', encoding='utf-8') as f: json.dump(data, f, indent=2, ...)
JsonDump(f, plat, p, data) ==
    LET opened == OpenForWrite(f, p)
        wrote  == WriteChunks(<<>>, IterEncode(data, 0), plat, "utf-8")
    IN  IF opened.err # Ok THEN opened
        ELSE Outcome([f EXCEPT ![p] = File(wrote.bytes)], wrote.err)

\* A faulty variant, for comparison: the text read is dumped as one JSON string: encoded twice
format_json_file_twice_encoded(f, plat, filepath) ==
    LET path == ToolPath(filepath)
    IN  IF ~Exists(f, path) THEN Reply(f, Msg("does not exist"))
        ELSE IF ~IsFile(f, path) THEN Reply(f, Msg("is not a file"))
        ELSE LET got  == ReadText(f, path, "utf-8")
                 data == JsonLoad(got.text)
             IN  IF got.err # Ok THEN Reply(f, Msg("Error formatting JSON file"))
                 ELSE IF ~data.ok THEN Reply(f, Msg("Invalid JSON"))
                 ELSE LET dumped == JsonDump(f, plat, path, <<"str", got.text>>)
                      IN  IF dumped.err # Ok
                          THEN Reply(dumped.fs, Msg("Error formatting JSON file"))
                          ELSE Reply(dumped.fs, Done("Successfully formatted JSON file"))

format_json_file(f, plat, filepath) ==
    LET path == ToolPath(filepath)
    IN  IF ~Exists(f, path) THEN Reply(f, Msg("does not exist"))
        ELSE IF ~IsFile(f, path) THEN Reply(f, Msg("is not a file"))
        ELSE LET got  == ReadText(f, path, "utf-8")
                 data == JsonLoad(got.text)
             IN  IF got.err # Ok THEN Reply(f, Msg("Error formatting JSON file"))
                 ELSE IF ~data.ok THEN Reply(f, Msg("Invalid JSON"))
                 ELSE LET dumped == JsonDump(f, plat, path, data.val)
                      IN  IF dumped.err # Ok
                          THEN Reply(dumped.fs, Msg("Error formatting JSON file"))
                          ELSE Reply(dumped.fs, Done("Successfully formatted JSON file"))

validate_json_file(f, filepath) ==
    LET path == ToolPath(filepath)
    IN  IF ~Exists(f, path) THEN Reply(f, Msg("does not exist"))
        ELSE IF ~IsFile(f, path) THEN Reply(f, Msg("is not a file"))
        ELSE LET got  == ReadText(f, path, "utf-8")
                 data == JsonLoad(got.text)
             IN  IF got.err # Ok THEN Reply(f, Msg("Error validating JSON file"))
                 ELSE IF ~data.ok THEN Reply(f, Msg("Invalid JSON"))
                 ELSE Reply(f, Done("JSON file is valid"))

\* The tree with nothing below the working directory.
EmptyFs == [p \in FsPaths |-> IF IsPrefix(p, Cwd) THEN Directory ELSE Absent]

\* ------------------------------------------------ specification: safe_path
RawPaths == {RawPath(a, s) : a \in BOOLEAN, s \in SeqsUpTo(Segments, MaxPathSegs)}
RawBases == {RawPath(a, s) : a \in BOOLEAN, s \in SeqsUpTo(Segments, MaxBaseSegs)}


InitPath ==
    /\ fs = EmptyFs
    /\ platform = "posix"
    /\ pc = "call"
    /\ \E p \in RawPaths, b \in RawBases \cup {None} :
          args = [op |-> "safe_path", path |-> p, base |-> b]
    /\ result = NoResult
    /\ before = fs

SafePathCall ==
    /\ pc = "call"
    /\ args.op = "safe_path"
    /\ result' = safe_path(args.path, args.base)
    /\ pc' = "done"
    /\ UNCHANGED <<fs, platform, args, before>>

NextPath == SafePathCall

SpecPath == InitPath /\ [][NextPath]_vars

\* What the resolver's caller is promised: the resolved base and target.
ResolvedBase   == Resolve(args.base)
ResolvedTarget == Resolve(JoinPath(ResolvedBase, args.path))

\* C1: with a base supplied, a target that is neither the resolved base nor
\* a descendant of it (whole path components) makes safe_path raise the
\* traversal error.
C1_EscapeRaises ==
    (pc = "done" /\ args.op = "safe_path" /\ args.base # None
        /\ ~IsPrefix(ResolvedBase, ResolvedTarget))
    => result = ValueError

\* C2: with a base supplied, a path that safe_path returns has the resolved
\* base as a strict prefix by whole path components.
C2_StrictPrefix ==
    (pc = "done" /\ args.op = "safe_path" /\ args.base # None /\ result.kind = "path")
    => (IsPrefix(ResolvedBase, result.path) /\ result.path # ResolvedBase)

\* ------------------------------------- specification: write, then read back
TextContents == SeqsUpTo(Chars, MaxTextLen)
\* A file directly in the working directory, and one two directories down.
NearFile == RawPath(FALSE, <<NameA>>)
DeepFile == RawPath(FALSE, <<NameB, NameA, NameB>>)
\* What the path may hold before the write.
PriorEntries == {Absent, Directory, File(<<>>), File(<<"a", "xE9">>)}
\* The trees the write may find: the near path holding any prior entry; the
\* deep path absent, with none or one of its ancestors there (as a
\* directory, or as a file standing in the way).
PriorTrees(file_path) ==
    IF file_path = NearFile
    THEN {[EmptyFs EXCEPT ![Resolve(NearFile)] = e] : e \in PriorEntries}
    ELSE {[EmptyFs EXCEPT ![Append(Cwd, NameB)] = e] : e \in {Absent, Directory, File(<<"a">>)}}

\* a name no codec has
UnknownEncoding == "utf-9"

InitText ==
    /\ platform \in {"posix", "nt"}
    /\ pc = "call"
    /\ \E p \in {NearFile, DeepFile}, c \in TextContents,
          enc \in Encodings \cup {UnknownEncoding}, mk \in BOOLEAN :
          /\ args = [op |-> "write_file", file_path |-> p, content |-> c,
                     encoding |-> enc, create_dirs |-> mk]
          /\ fs \in PriorTrees(p)
    /\ result = NoResult
    /\ before = fs

RoundTripWrite ==
    /\ pc = "call"
    /\ args.op = "write_file"
    /\ LET r == write_file(fs, platform, args.file_path, args.content, args.encoding,
                           args.create_dirs)
       IN  /\ fs' = r.fs
           /\ result' = r.ret
           /\ pc' = IF r.ret.kind = "ok" THEN "written" ELSE "not written"
    /\ before' = fs
    /\ UNCHANGED <<platform, args>>

RoundTripRead ==
    /\ pc \in {"written", "not written"}
    /\ LET r == read_file(fs, args.file_path, args.encoding)
       IN  /\ fs' = r.fs
           /\ result' = r.ret
    /\ pc' = IF pc = "written" THEN "read back" ELSE "read after failure"
    /\ UNCHANGED <<platform, args, before>>

NextText == RoundTripWrite \/ RoundTripRead

SpecText == InitText /\ [][NextText]_vars

\* C3: a write_file that succeeded, followed at once by read_file of the
\* same path with the same encoding, returns exactly the content written.
C3_RoundTrip ==
    pc = "read back" => result = Text(args.content)

\* ------------------------------------------- specification: the file tools
\* Calls arrive one at a time, each with a path below the working directory.
ToolPaths == {RawPath(FALSE, r) : r \in FsRel \ {<<>>}}
FileContents == {<<"a">>, <<"a", "a">>}

\* A call is taken up when everything it touches lies in the modelled tree.
InTree(f) == DOMAIN f = FsPaths
Touches(src, dst) == Append(ToolPath(dst), Name(ToolPath(src))) \in FsPaths

\* Entries that exist below the working directory.
EntryCount(f) == Cardinality({p \in Under(Cwd) : Exists(f, p)})

NoCall == [op |-> "none"]

Init ==
    /\ fs = EmptyFs
    /\ platform = "posix"
    /\ pc = "ready"
    /\ args = NoCall
    /\ result = NoResult
    /\ before = fs

\* The handler has run: the tree is as it left it, the caller has the reply.
Return(call, r) ==
    /\ EntryCount(r.fs) <= MaxEntries
    /\ args' = call
    /\ before' = fs
    /\ fs' = r.fs
    /\ result' = r.ret
    /\ pc' = "returned"
    /\ UNCHANGED platform

\* The handler of a call, applied to a tree.
Handle(f, plat, call) ==
    CASE call.op = "read_file" -> read_file(f, call.file_path, call.encoding)
      [] call.op = "write_file" ->
            write_file(f, plat, call.file_path, call.content, call.encoding, call.create_dirs)
      [] call.op = "create_directory" -> create_directory(f, call.dir_path, call.parents)
      [] call.op = "delete_directory" -> delete_directory(f, call.dir_path, call.recursive)
      [] call.op = "copy_file" ->
            copy_file(f, call.source_path, call.destination_path, call.overwrite)
      [] call.op = "move_file" ->
            move_file(f, call.source_path, call.destination_path, call.overwrite)
      [] call.op = "delete_file" -> delete_file(f, call.file_path)

ReadFile ==
    /\ pc = "ready"
    /\ \E p \in ToolPaths :
           LET call == [op |-> "read_file", file_path |-> p, encoding |-> "utf-8"]
           IN  Return(call, Handle(fs, platform, call))

WriteFile ==
    /\ pc = "ready"
    /\ \E p \in ToolPaths, c \in FileContents, mk \in BOOLEAN :
           LET call == [op |-> "write_file", file_path |-> p, content |-> c,
                        encoding |-> "utf-8", create_dirs |-> mk]
           IN  Return(call, Handle(fs, platform, call))

CreateDirectory ==
    /\ pc = "ready"
    /\ \E p \in ToolPaths, parents \in BOOLEAN :
           LET call == [op |-> "create_directory", dir_path |-> p, parents |-> parents]
           IN  Return(call, Handle(fs, platform, call))

DeleteDirectory ==
    /\ pc = "ready"
    /\ \E p \in ToolPaths, recursive \in BOOLEAN :
           LET call == [op |-> "delete_directory", dir_path |-> p, recursive |-> recursive]
           IN  Return(call, Handle(fs, platform, call))

CopyFile ==
    /\ pc = "ready"
    /\ \E s \in ToolPaths, d \in ToolPaths, overwrite \in BOOLEAN :
           LET call == [op |-> "copy_file", source_path |-> s, destination_path |-> d,
                        overwrite |-> overwrite]
           IN  /\ IsDir(fs, ToolPath(d)) => Touches(s, d)
               /\ Return(call, Handle(fs, platform, call))

\* what is moved stays within the paths of the tree
MoveFits(f, src, dst) ==
    \A q \in DOMAIN f :
        IsPrefix(src, q) /\ Exists(f, q)
            => MoveTarget(f, src, dst) \o SubSeq(q, Len(src) + 1, Len(q)) \in DOMAIN f

MoveFile ==
    /\ pc = "ready"
    /\ \E s \in ToolPaths, d \in ToolPaths, overwrite \in BOOLEAN :
           LET call == [op |-> "move_file", source_path |-> s, destination_path |-> d,
                        overwrite |-> overwrite]
           IN  /\ MoveFits(fs, ToolPath(s), ToolPath(d))
               /\ Return(call, Handle(fs, platform, call))

DeleteFile ==
    /\ pc = "ready"
    /\ \E p \in ToolPaths :
           LET call == [op |-> "delete_file", file_path |-> p]
           IN  Return(call, Handle(fs, platform, call))

\* The caller sends the call it has just made once more.
CallAgain ==
    /\ pc = "returned"
    /\ LET r == Handle(fs, platform, args)
       IN  /\ EntryCount(r.fs) <= MaxEntries
           /\ fs' = r.fs
           /\ result' = r.ret
           /\ args' = args @@ [first |-> result]
    /\ before' = fs
    /\ pc' = "repeated"
    /\ UNCHANGED platform

\* The server waits for the next call.
NextCall ==
    /\ pc \in {"returned", "repeated"}
    /\ pc' = "ready"
    /\ args' = NoCall
    /\ result' = NoResult
    /\ before' = fs
    /\ UNCHANGED <<fs, platform>>

Next ==
    \/ ReadFile \/ WriteFile \/ CreateDirectory \/ DeleteDirectory \/ CopyFile
    \/ MoveFile \/ DeleteFile
    \/ CallAgain \/ NextCall

Spec == Init /\ [][Next]_vars

\* The tree stays a tree: an entry exists only inside a directory.
TreeShape ==
    /\ InTree(fs)
    /\ \A p \in FsPaths : (p # <<>> /\ Exists(fs, p)) => IsDir(fs, Parent(p))

\* ------------------------------------------------ claims on the file tools
Called(op) == pc \in {"returned", "repeated"} /\ args.op = op
Src == ToolPath(args.source_path)
Dst == ToolPath(args.destination_path)
Dir == ToolPath(args.dir_path)

\* C4 (as stated): copy_file with overwrite=False onto an existing
\* destination returns the destination-exists error and changes nothing,
\* whatever the source is.
C4_AsStated ==
    (Called("copy_file") /\ ~args.overwrite /\ Exists(before, Dst))
    => (result = Msg("Destination already exists") /\ fs = before)

\* C4 (amended): copy_file with overwrite=False, from a source that is an
\* existing file, onto an existing destination returns the
\* destination-exists error and leaves every entry as it was (no parent
\* directory is created).
C4_NoOverwrite ==
    (Called("copy_file") /\ ~args.overwrite /\ IsFile(before, Src) /\ Exists(before, Dst))
    => (result = Msg("Destination already exists") /\ fs = before)

C4_Witness ==
    /\ Called("copy_file") /\ ~args.overwrite
    /\ IsFile(before, Src) /\ IsFile(before, Dst) /\ Src # Dst
    /\ before[Src].data # before[Dst].data
    /\ result = Msg("Destination already exists")

\* C5: copy_file with overwrite=True from a file onto an existing
\* destination (file or directory), when it reports success, leaves at the
\* destination path a file with the source's content, the source unchanged
\* and no other entry created or changed.
C5_OverwriteReplaces ==
    (Called("copy_file") /\ args.overwrite /\ IsFile(before, Src) /\ Exists(before, Dst)
        /\ result.kind = "ok")
    => /\ fs[Dst] = File(before[Src].data)
       /\ fs[Src] = before[Src]
       /\ \A q \in FsPaths \ {Dst} : fs[q] = before[q]

\* C6: delete_directory with recursive=False on a non-empty directory
\* returns an error and leaves the directory and everything in it as it was.
C6_NonEmptyKept ==
    (Called("delete_directory") /\ ~args.recursive /\ IsDir(before, Dir)
        /\ \E q \in Under(Dir) : Exists(before, q))
    => (result.kind = "error" /\ fs = before)

C6_Witness ==
    /\ Called("delete_directory") /\ ~args.recursive /\ IsDir(before, Dir)
    /\ \E q \in Under(Dir) : IsFile(before, q)
    /\ result = Msg("Error deleting directory")

\* C7: delete_directory with recursive=True on an existing directory, when
\* it reports success, leaves nothing at or under the directory and every
\* entry outside its subtree as it was.
C7_RecursiveRemovesSubtree ==
    (Called("delete_directory") /\ args.recursive /\ IsDir(before, Dir)
        /\ result.kind = "ok")
    => \A q \in FsPaths : IF IsPrefix(Dir, q) THEN ~Exists(fs, q) ELSE fs[q] = before[q]

C7_Witness ==
    /\ Called("delete_directory") /\ args.recursive /\ result.kind = "ok"
    /\ \E q \in Under(Dir) : Exists(before, q) /\ Parent(q) # Dir
    /\ ~Exists(fs, Dir)

\* C8: create_directory on a path that exists (directory or file) returns
\* the already-exists error and changes nothing; and a create_directory that
\* succeeded, sent again with the same arguments, gets the already-exists
\* error and changes nothing, whatever the parents flag is.
C8_ExistingRefused ==
    /\ (Called("create_directory") /\ Exists(before, Dir))
       => (result = Msg("already exists") /\ fs = before)
    /\ (Called("create_directory") /\ pc = "repeated" /\ args.first.kind = "ok")
       => (result = Msg("already exists") /\ fs = before /\ IsDir(fs, Dir))

C8_Witness ==
    /\ Called("create_directory") /\ pc = "repeated" /\ ~args.parents
    /\ args.first = Done("Successfully created directory")
    /\ result = Msg("already exists")

\* -------------------------------------------- claims on write-then-read
Written == ToolPath(args.file_path)
MissingAncestors == {q \in Ancestors(Written) : ~Exists(before, q)}

\* C9: write_file with create_dirs=True (default encoding) on a path some of
\* whose ancestor directories are missing creates every missing ancestor and
\* the file, and the read_file that follows returns the content; with
\* create_dirs=False and a missing parent it returns an error and creates
\* neither directory nor file.
C9_CreateDirs ==
    /\ (pc \in {"written", "not written"} /\ args.create_dirs /\ args.encoding = "utf-8"
            /\ MissingAncestors # {} /\ ~BlockedByFile(before, Written))
       => (pc = "written" /\ IsFile(fs, Written) /\ \A q \in Ancestors(Written) : IsDir(fs, q))
    /\ (pc = "read back" /\ args.create_dirs /\ args.encoding = "utf-8"
            /\ MissingAncestors # {} /\ ~BlockedByFile(before, Written))
       => result = Text(args.content)
    /\ (pc \in {"written", "not written"} /\ ~args.create_dirs
            /\ ~Exists(before, Parent(Written)))
       => (result.kind = "error" /\ fs = before)

\* C28: a write_file that returns an error leaves the tree as it found it:
\* the file that was at the path keeps its content and no directory has been
\* created.
C28_FailedWriteChangesNothing ==
    pc = "not written" => (result.kind = "error" /\ fs = before)

\* what Src held, found at a path: the entry and all that was below it
HeldAt(f, at) ==
    \A q \in DOMAIN before :
        IsPrefix(Src, q) /\ at \o SubSeq(q, Len(Src) + 1, Len(q)) \in DOMAIN f
            => f[at \o SubSeq(q, Len(Src) + 1, Len(q))] = before[q]

\* C15: move_file with an existing source: an existing destination without
\* overwrite gives the destination-exists error and changes nothing; after a
\* reported success the source is gone and the entry at the destination path
\* is what the source was.
C15_MovedToDestination ==
    Called("move_file") =>
        /\ (Exists(before, Src) /\ Exists(before, Dst) /\ ~args.overwrite)
              => (result = Msg("Destination already exists") /\ fs = before)
        /\ result = Done("Successfully moved")
              => (~Exists(fs, Src) /\ HeldAt(fs, Dst))

Target == ToolPath(args.file_path)

\* C16: delete_file removes the file at the path and nothing else; a missing
\* path gives the does-not-exist error and a directory the not-a-file error,
\* from delete_file and from read_file, and the tree is then left as it was.
C16_DeleteOnlyTheFile ==
    /\ Called("delete_file") =>
          IF ~Exists(before, Target)
          THEN result = Msg("does not exist") /\ fs = before
          ELSE IF IsDir(before, Target)
          THEN result = Msg("is not a file") /\ fs = before
          ELSE /\ result = Done("Successfully deleted file")
               /\ fs = [before EXCEPT ![Target] = Absent]
    /\ Called("read_file") =>
          /\ ~Exists(before, Target) => (result = Msg("does not exist") /\ fs = before)
          /\ IsDir(before, Target) => (result = Msg("is not a file") /\ fs = before)

\* a file was deleted from a directory that holds another file; the same
\* call sent again found it missing
C16_Witness ==
    /\ pc = "repeated" /\ args.op = "delete_file"
    /\ args.first = Done("Successfully deleted file")
    /\ result = Msg("does not exist")
    /\ \E q \in DOMAIN fs : q # Target /\ Parent(q) = Parent(Target) /\ IsFile(fs, q)
    /\ Len(Target) > Len(Cwd) + 1

\* --------------------------------------- specification: format a JSON file
\* The texts a file may hold: every JSON value of up to MaxJsonTokens tokens
\* over these scalars and keys, written compactly, with a space or with a
\* CR LF after each token; and the compact texts cut short by a token.
TokNumber   == <<"1", ".", "0", "0">>
TokNegZero  == <<"-", "0">>
TokSlash    == <<QUOTE, BACKSLASH, "/", QUOTE>>
TokEAcute   == <<QUOTE, BACKSLASH, "u", "0", "0", "e", "9", QUOTE>>
TokSurrogate == <<QUOTE, BACKSLASH, "u", "d", "8", "0", "0", QUOTE>>
TokKeyA     == <<QUOTE, "a", QUOTE>>
JsonScalars == {TokNumber, TokNegZero, TokSlash, TokEAcute, TokSurrogate}
JsonKeys    == {TokKeyA, TokSlash}

RECURSIVE JsonValues(_), JsonItems(_), JsonMembers(_)
JsonValues(n) ==
    IF n < 1 THEN {}
    ELSE IF n = 1 THEN {<<t>> : t \in JsonScalars}
    ELSE IF n = 2 THEN {<< <<"[">>, <<"]">> >>, << <<"{">>, <<"}">> >>}
    ELSE {<< <<"[">> >> \o x \o << <<"]">> >> : x \in JsonItems(n - 2)}
         \cup {<< <<"{">> >> \o x \o << <<"}">> >> : x \in JsonMembers(n - 2)}

JsonItems(n) ==
    JsonValues(n)
    \cup UNION {{a \o << <<",">> >> \o b : a \in JsonValues(k), b \in JsonItems(n - 1 - k)}
                : k \in 1..(n - 2)}

JsonMembers(n) ==
    {<<key, <<":">>>> \o v : key \in JsonKeys, v \in JsonValues(n - 2)}
    \cup UNION {{<<key, <<":">>>> \o v \o << <<",">> >> \o b
                    : key \in JsonKeys, v \in JsonValues(k - 2), b \in JsonMembers(n - 1 - k)}
                : k \in 3..(n - 4)}

JsonTokenTexts == UNION {JsonValues(n) : n \in 1..MaxJsonTokens}

Render(tokens, style) ==
    LET gap == IF style = "compact" THEN <<>>
               ELSE IF style = "spaced" THEN <<" ">> ELSE <<CR, LF>>
    IN  Flatten([k \in 1..Len(tokens) |-> tokens[k] \o gap])

JsonStyles == {"compact", "spaced", "crlf"}

\* the texts of the JSON grammar (RFC 8259), as bytes of a file
StandardJsonFiles ==
    {Encode(Render(t, style), "utf-8") : t \in JsonTokenTexts, style \in JsonStyles}

\* texts outside the grammar: cut short, or with the constant NaN
TokNaN == <<"N", "a", "N">>
NaNTokenTexts == {<<TokNaN>>, << <<"[">>, TokNaN, <<"]">> >>}
NonJsonTexts ==
    {Render(SubSeq(t, 1, Len(t) - 1), "compact") : t \in JsonTokenTexts}
    \cup {Render(t, style) : t \in NaNTokenTexts, style \in JsonStyles}

JsonTexts ==
    {Render(t, style) : t \in JsonTokenTexts, style \in JsonStyles} \cup NonJsonTexts

\* what the file may hold: a text in UTF-8, or bytes that are not UTF-8
\* (a quoted e-acute in Latin-1)
JsonFileContents ==
    {Encode(text, "utf-8") : text \in JsonTexts} \cup {<<QUOTE, "xE9", QUOTE>>}

JsonFile == RawPath(FALSE, <<NameA>>)

InitJson ==
    /\ platform \in {"posix", "nt"}
    /\ \E bytes \in JsonFileContents :
          fs = [EmptyFs EXCEPT ![Resolve(JsonFile)] = File(bytes)]
    /\ pc = "call"
    /\ args = [op |-> "none", filepath |-> JsonFile]
    /\ result = NoResult
    /\ before = fs

\* format_json_file is applied, and then applied once more
FormatJsonFile ==
    /\ pc \in {"call", "formatted once"}
    /\ LET r == format_json_file(fs, platform, args.filepath)
       IN  /\ fs' = r.fs
           /\ result' = r.ret
    /\ before' = fs
    /\ args' = IF pc = "call"
               THEN [op |-> "format_json_file", filepath |-> args.filepath,
                     original |-> fs[ToolPath(args.filepath)].data]
               ELSE args @@ [first |-> result]
    /\ pc' = IF pc = "call" THEN "formatted once" ELSE "formatted twice"
    /\ UNCHANGED platform

ValidateJsonFile ==
    /\ pc = "call"
    /\ LET r == validate_json_file(fs, args.filepath)
       IN  /\ fs' = r.fs
           /\ result' = r.ret
    /\ before' = fs
    /\ args' = [op |-> "validate_json_file", filepath |-> args.filepath,
                original |-> fs[ToolPath(args.filepath)].data]
    /\ pc' = "validated"
    /\ UNCHANGED platform

NextJson == FormatJsonFile \/ ValidateJsonFile

SpecJson == InitJson /\ [][NextJson]_vars

\* C11: format_json_file on a file whose content is not a JSON text returns
\* the invalid-JSON error and leaves the file as it was; validate_json_file
\* never changes the file.
C11_InvalidRejected ==
    /\ (pc = "formatted once" /\ args.original \notin StandardJsonFiles)
       => (result = Msg("Invalid JSON") /\ fs = before)
    /\ pc = "validated" => fs = before

\* C10: applying format_json_file a second time leaves the file exactly as
\* the first application left it.
C10_FormatIdempotent ==
    pc = "formatted twice" => fs = before

\* the first application rewrote the file, the second succeeded as well
C10_Witness ==
    /\ pc = "formatted twice"
    /\ args.first = Done("Successfully formatted JSON file")
    /\ result = Done("Successfully formatted JSON file")
    /\ fs[ToolPath(args.filepath)].data # args.original
    /\ Len(fs[ToolPath(args.filepath)].data) > Len(args.original)

\* ------------------------------------------------ specification: _format_size
\* A byte count is the sequence of its digits in base 1024, the most
\* significant first; after k divisions by 1024.0 the last k digits are the
\* fraction.  The counts modelled are ones a float holds exactly.
KiB == 1024
Units == <<"B", "KB", "MB", "GB", "TB">>
LastUnit == "PB"

\* the value of a sequence of digits
RECURSIVE DigitsValue(_)
DigitsValue(ds) ==
    IF ds = <<>> THEN 0 ELSE DigitsValue(SubSeq(ds, 1, Len(ds) - 1)) * KiB + ds[Len(ds)]

\* size_bytes < 1024.0
Below1024(whole) == Len(whole) <= 1

\* ten times a fraction, rounded down, and whether nothing was dropped
RECURSIVE TenFold(_)
TenFold(frac) ==
    IF frac = <<>> THEN [floor |-> 0, exact |-> TRUE]
    ELSE LET sub == TenFold(Tail(frac))
             x   == 10 * Head(frac) + sub.floor
         IN  [floor |-> x \div KiB, exact |-> sub.exact /\ x % KiB = 0]

\* f"{size_bytes:.1f}": one decimal, the nearest, a tie going to the even digit
Format1f(whole, frac) ==
    LET sub   == IF frac = <<>> THEN [floor |-> 0, exact |-> TRUE] ELSE TenFold(Tail(frac))
        x     == (IF frac = <<>> THEN 0 ELSE 10 * Head(frac)) + sub.floor
        q     == x \div KiB
        r     == x % KiB
        up    == \/ 2 * r > KiB
                 \/ 2 * r = KiB /\ ~sub.exact
                 \/ 2 * r = KiB /\ sub.exact /\ q % 2 = 1
        tenth == IF up THEN q + 1 ELSE q
    IN  IF tenth = 10 THEN [whole |-> DigitsValue(whole) + 1, tenth |-> 0]
        ELSE [whole |-> DigitsValue(whole), tenth |-> tenth]

\* the loop over the units: compare, return, or divide and go on
RECURSIVE FormatSizeFrom(_, _, _)
FormatSizeFrom(whole, frac, k) ==
    IF k > Len(Units) THEN Format1f(whole, frac) @@ [unit |-> LastUnit]
    ELSE IF Below1024(whole) THEN Format1f(whole, frac) @@ [unit |-> Units[k]]
    ELSE FormatSizeFrom(SubSeq(whole, 1, Len(whole) - 1), <<whole[Len(whole)]>> \o frac, k + 1)

_format_size(size_bytes) == FormatSizeFrom(size_bytes, <<>>, 1)

MaxSizeDigits == 2
SizeDigits == {0, 1, 256, 512, 768, 972, 973, 1023}
Scales == 0..Len(Units)

\* byte counts: up to MaxSizeDigits digits, times a power of 1024
ByteCounts ==
    {<<0>>} \cup
    {ds \o [i \in 1..k |-> 0] :
        ds \in {d \in SeqsUpTo(SizeDigits, MaxSizeDigits) : d # <<>> /\ d[1] # 0},
        k \in Scales}

InitSize ==
    /\ platform = "posix"
    /\ fs = EmptyFs
    /\ before = fs
    /\ pc = "call"
    /\ \E n \in ByteCounts : args = [op |-> "none", size_bytes |-> n]
    /\ result = NoResult

FormatSize ==
    /\ pc = "call"
    /\ result' = _format_size(args.size_bytes)
    /\ args' = [op |-> "_format_size", size_bytes |-> args.size_bytes]
    /\ pc' = "size formatted"
    /\ UNCHANGED <<fs, platform, before>>

NextSize == FormatSize

SpecSize == InitSize /\ [][NextSize]_vars

\* the units in order, and the place of the unit of a result
AllUnits == Units \o <<LastUnit>>
UnitIndex(u) == CHOOSE k \in 1..Len(AllUnits) : AllUnits[k] = u

\* C12: the displayed value is below 1024, and the unit is the largest one
\* whose scaled value is at least 1 (B below 1024); 1536 is 1.5 KB, 0 is 0.0 B.
C12_LargestUnitBelow1024 ==
    pc = "size formatted" =>
        /\ result.whole < KiB
        /\ UnitIndex(result.unit) =
              IF Len(args.size_bytes) < Len(AllUnits) THEN Len(args.size_bytes)
              ELSE Len(AllUnits)
        /\ args.size_bytes = <<1, 512>>
              => result = [whole |-> 1, tenth |-> 5, unit |-> "KB"]
        /\ args.size_bytes = <<0>>
              => result = [whole |-> 0, tenth |-> 0, unit |-> "B"]

\* --------------------------------------------- strings: order, case, globs
\* ord() of the characters that names, patterns and listing lines are made of
Code(c) ==
    CASE c = " " -> 32 [] c = "." -> 46 [] c = "/" -> 47
      [] c = "0" -> 48 [] c = "1" -> 49 [] c = "2" -> 50 [] c = "4" -> 52
      [] c = "6" -> 54 [] c = "9" -> 57
      [] c = "A" -> 65 [] c = "D" -> 68 [] c = "E" -> 69 [] c = "F" -> 70
      [] c = "I" -> 73 [] c = "L" -> 76 [] c = "R" -> 82 [] c = "T" -> 84
      [] c = "[" -> 91 [] c = "]" -> 93
      [] c = "a" -> 97 [] c = "b" -> 98 [] c = "s" -> 115 [] c = "t" -> 116
      [] OTHER -> 127

\* str.__lt__: by the first character that differs, a prefix first
RECURSIVE StrLess(_, _)
StrLess(x, y) ==
    IF y = <<>> THEN FALSE
    ELSE IF x = <<>> THEN TRUE
    ELSE IF Head(x) = Head(y) THEN StrLess(Tail(x), Tail(y))
    ELSE Code(Head(x)) < Code(Head(y))

\* sorted() of distinct strings
RECURSIVE Sorted(_)
Sorted(S) ==
    IF S = {} THEN <<>>
    ELSE LET least == CHOOSE x \in S : \A y \in S \ {x} : StrLess(x, y)
         IN  <<least>> \o Sorted(S \ {least})

\* str.lower()
LowerChar(c) == IF c = "A" THEN "a" ELSE IF c = "T" THEN "t" ELSE c
Lower(str) == [i \in 1..Len(str) |-> LowerChar(str[i])]

\* sub in str
Contains(str, sub) ==
    \E i \in 1..(Len(str) - Len(sub) + 1) : SubSeq(str, i, i + Len(sub) - 1) = sub

\* fnmatch.fnmatchcase for patterns of literals, '?' and '*'
RECURSIVE FnmatchCase(_, _)
FnmatchCase(name, pat) ==
    IF pat = <<>> THEN name = <<>>
    ELSE IF Head(pat) = "*"
    THEN FnmatchCase(name, Tail(pat)) \/ (name # <<>> /\ FnmatchCase(Tail(name), pat))
    ELSE /\ name # <<>>
         /\ Head(pat) = "?" \/ Head(pat) = Head(name)
         /\ FnmatchCase(Tail(name), Tail(pat))

\* glob.has_magic, glob._ishidden
HasMagic(pat) == \E i \in 1..Len(pat) : pat[i] \in {"*", "?", "["}
IsHidden(str) == str # <<>> /\ str[1] = "."

\* the entries of a directory (os.listdir, os.scandir)
Listdir(f, d) == {q \in DOMAIN f : Len(q) = Len(d) + 1 /\ Parent(q) = d /\ Exists(f, q)}

\* os.path.relpath(q, base) for q below base; a path string with separators
RelPath(q, base) == SubSeq(q, Len(base) + 1, Len(q))
RelStr(rel) ==
    Flatten([i \in 1..Len(rel) |-> (IF i = 1 THEN <<>> ELSE <<"/">>) \o NameChars(rel[i])])

\* ------------------------------------------------ specification: search_files
\* What glob.glob and os.walk do on a POSIX system (case-sensitive names).
Found(paths) == [kind |-> "ok", msg |-> "Found", text |-> <<>>, paths |-> paths]

\* the directories under d, d included, whose files os.walk visits
WalkDirs(f, d) == {q \in DOMAIN f : IsPrefix(d, q) /\ IsDir(f, q)}

\* glob '**' (recursive): d and the directories below it that are reached
\* through names not starting with a dot
GlobStarDirs(f, d) ==
    {q \in WalkDirs(f, d) :
        \A i \in (Len(d) + 1)..Len(q) : ~IsHidden(NameChars(q[i]))}

\* glob._glob1 for a pattern with wildcards, glob._glob0 for a plain name
GlobInDir(f, d, pattern) ==
    IF HasMagic(pattern)
    THEN {q \in Listdir(f, d) :
            /\ IsHidden(pattern) \/ ~IsHidden(NameChars(Name(q)))
            /\ FnmatchCase(NameChars(Name(q)), pattern)}
    ELSE {q \in Listdir(f, d) : NameChars(Name(q)) = pattern}

\* glob.glob(str(base_path / "**" / pattern), recursive=True), or
\* glob.glob(str(base_path / pattern))
Glob(f, base, pattern, recursive) ==
    IF recursive THEN UNION {GlobInDir(f, d, pattern) : d \in GlobStarDirs(f, base)}
    ELSE GlobInDir(f, base, pattern)

\* the test of the case-insensitive branch on one name
LooseMatch(file, pattern) ==
    \/ Contains(Lower(file), Lower(pattern))
    \/ FnmatchCase(Lower(file), Lower(pattern))

\* the case-insensitive branch: the files os.walk finds, or when not
\* recursive every entry that os.listdir names
WalkMatches(f, base, pattern, recursive) ==
    IF recursive
    THEN {q \in DOMAIN f :
            /\ Parent(q) \in WalkDirs(f, base) /\ Len(q) > Len(base)
            /\ Exists(f, q) /\ ~IsDir(f, q)
            /\ LooseMatch(NameChars(Name(q)), pattern)}
    ELSE {q \in Listdir(f, base) : LooseMatch(NameChars(Name(q)), pattern)}

search_files(f, pattern, directory, recursive, case_sensitive) ==
    LET base_path == ToolPath(directory)
        matches   == IF case_sensitive THEN Glob(f, base_path, pattern, recursive)
                     ELSE WalkMatches(f, base_path, pattern, recursive)
    IN  IF ~Exists(f, base_path) THEN Reply(f, Msg("does not exist"))
        ELSE IF ~IsDir(f, base_path) THEN Reply(f, Msg("is not a directory"))
        ELSE IF matches = {} THEN Reply(f, Done("No files found"))
        ELSE Reply(f, Found(Sorted({RelStr(RelPath(q, base_path)) : q \in matches})))

\* Trees for the directory tools: names with a suffix, a dot name, a
\* directory name; up to MaxListed entries, MaxNested levels deep.
MaxListed == 3
MaxNested == 2
ListedNames == {"a.t", "at", ".t", "s"}
ListedPaths ==
    {Cwd \o r : r \in SeqsUpTo(ListedNames, MaxNested)}
    \cup {SubSeq(Cwd, 1, n) : n \in 0..Len(Cwd)}
EmptyListed == [p \in ListedPaths |-> IF IsPrefix(p, Cwd) THEN Directory ELSE Absent]

RECURSIVE ListedTrees(_, _)
ListedTrees(n, entries) ==
    IF n = 0 THEN {EmptyListed}
    ELSE LET smaller == ListedTrees(n - 1, entries)
         IN  smaller \cup
             {[t EXCEPT ![p] = e] :
                 t \in smaller,
                 p \in {q \in ListedPaths : Len(q) > Len(Cwd)},
                 e \in entries}

\* a tree is one where every entry sits in a directory
WellFormed(f) == \A p \in DOMAIN f : Exists(f, p) /\ p # <<>> => IsDir(f, Parent(p))

SearchPatterns ==
    {<<"*", ".", "t">>, <<"t">>, <<"a", "t">>, <<"A", ".", "T">>, <<"?", "t">>}
SearchDirs == {RawPath(FALSE, <<Dot>>), RawPath(FALSE, <<"s">>)}

InitSearch ==
    /\ platform = "posix"
    /\ fs \in {t \in ListedTrees(MaxListed, {Directory, File(<<>>)}) : WellFormed(t)}
    /\ before = fs
    /\ pc = "call"
    /\ \E pattern \in SearchPatterns, directory \in SearchDirs,
          recursive \in BOOLEAN, case_sensitive \in BOOLEAN :
          args = [op |-> "none", pattern |-> pattern, directory |-> directory,
                  recursive |-> recursive, case_sensitive |-> case_sensitive]
    /\ result = NoResult

SearchFiles ==
    /\ pc = "call"
    /\ LET r == search_files(fs, args.pattern, args.directory, args.recursive,
                             args.case_sensitive)
       IN  /\ fs' = r.fs
           /\ result' = r.ret
    /\ before' = fs
    /\ args' = [args EXCEPT !.op = "search_files"]
    /\ pc' = "searched"
    /\ UNCHANGED platform

NextSearch == SearchFiles

SpecSearch == InitSearch /\ [][NextSearch]_vars

\* the regular files under base (directly in it when not recursive)
FilesIn(f, base, recursive) ==
    {q \in DOMAIN f :
        /\ IsPrefix(base, q) /\ Len(q) > Len(base)
        /\ recursive \/ Len(q) = Len(base) + 1
        /\ IsFile(f, q)}

\* the name matches the glob pattern, letter case ignored when asked
GlobMatches(name, pattern, case_sensitive) ==
    IF case_sensitive THEN FnmatchCase(name, pattern)
    ELSE FnmatchCase(Lower(name), Lower(pattern))

Expected(hidden) ==
    {RelStr(RelPath(q, ToolPath(args.directory))) :
        q \in {x \in FilesIn(before, ToolPath(args.directory), args.recursive) :
                /\ GlobMatches(NameChars(Name(x)), args.pattern, args.case_sensitive)
                /\ hidden \/ \A i \in (Len(ToolPath(args.directory)) + 1)..Len(x) :
                                ~IsHidden(NameChars(x[i]))}}

Returned_paths == IF result.msg = "Found" THEN {result.paths[i] : i \in DOMAIN result.paths} ELSE {}

\* C13: search_files returns exactly the files under the directory whose name
\* matches the glob pattern, as relative paths: every matching file that is
\* not behind a dot name is returned, and nothing is returned that is not a
\* matching file.
C13_ExactlyMatchingFiles ==
    (pc = "searched" /\ IsDir(before, ToolPath(args.directory))) =>
        /\ Expected(FALSE) \subseteq Returned_paths
        /\ Returned_paths \subseteq Expected(TRUE)

\* C29: with a pattern that has no upper-case letter, on trees whose names
\* have none, search_files returns the same with case_sensitive true and
\* false.
C29_CaseFlagOnlyCase ==
    (pc = "searched" /\ Lower(args.pattern) = args.pattern) =>
        result = search_files(before, args.pattern, args.directory, args.recursive,
                              ~args.case_sensitive).ret

\* ---------------------------------------------- specification: list_directory
\* The lines of a listing are strings; sorted(items) compares the lines.
\* stat() of the entries: the size is the number of bytes of a file, every
\* directory has the size of one block, and the entries share their
\* permission bits by type and their modification second.
Listing(lines) == [kind |-> "ok", msg |-> "Directory listing", text |-> <<>>, lines |-> lines]

DecimalDigit(n) == CASE n = 0 -> "0" [] n = 1 -> "1" [] n = 2 -> "2" [] OTHER -> "9"
StSize(entry) ==
    IF entry.type = "dir" THEN <<"4", "0", "9", "6">> ELSE <<DecimalDigit(Len(entry.data))>>

\* f"{value:>width}"
RightAlign(str, width) == [i \in 1..(width - Len(str)) |-> " "] \o str

\* the line of one entry, plain or detailed
ItemLine(f, item, detailed) ==
    IF detailed
    THEN (IF IsDir(f, item) THEN <<"D", "I", "R", " ">> ELSE <<"F", "I", "L", "E">>)
         \o <<" ">> \o RightAlign(StSize(f[item]), 10)
         \o <<" ">> \o RightAlign(<<IF IsDir(f, item) THEN "0o755" ELSE "0o644">>, 6)
         \o <<" ", "modified", " ">> \o NameChars(Name(item))
    ELSE (IF IsDir(f, item) THEN <<"[", "D", "I", "R", "]">> ELSE <<"[", "F", "I", "L", "E", "]">>)
         \o <<" ">> \o NameChars(Name(item))

list_directory(f, dir_path, include_hidden, detailed) ==
    LET path  == ToolPath(dir_path)
        shown == {item \in Listdir(f, path) :
                    include_hidden \/ ~IsHidden(NameChars(Name(item)))}
        items == {ItemLine(f, item, detailed) : item \in shown}
    IN  IF ~Exists(f, path) THEN Reply(f, Msg("does not exist"))
        ELSE IF ~IsDir(f, path) THEN Reply(f, Msg("is not a directory"))
        ELSE IF items = {} THEN Reply(f, Done("is empty"))
        ELSE Reply(f, Listing(Sorted(items)))

ListedEntries == {Directory, File(<<>>), File(<<"a", "a">>)}

InitList ==
    /\ platform = "posix"
    /\ fs \in {t \in ListedTrees(MaxListed, ListedEntries) : WellFormed(t)}
    /\ before = fs
    /\ pc = "call"
    /\ \E dir_path \in SearchDirs, include_hidden \in BOOLEAN, detailed \in BOOLEAN :
          args = [op |-> "none", dir_path |-> dir_path,
                  include_hidden |-> include_hidden, detailed |-> detailed]
    /\ result = NoResult

ListDirectory ==
    /\ pc = "call"
    /\ LET r == list_directory(fs, args.dir_path, args.include_hidden, args.detailed)
       IN  /\ fs' = r.fs
           /\ result' = r.ret
    /\ before' = fs
    /\ args' = [args EXCEPT !.op = "list_directory"]
    /\ pc' = "listed"
    /\ UNCHANGED platform

NextList == ListDirectory

SpecList == InitList /\ [][NextList]_vars

\* the entries a listing is to show, and their names in ascending order
Listed == {item \in Listdir(before, Dir) :
              args.include_hidden \/ ~IsHidden(NameChars(Name(item)))}
NamesInOrder == Sorted({NameChars(Name(item)) : item \in Listed})
EntryNamed(name) == CHOOSE item \in Listed : NameChars(Name(item)) = name

\* C14: the listing shows the entries of the directory ordered by entry name
\* ascending, plain or detailed; entries whose name starts with '.' only when
\* include_hidden is true.
C14_SortedByName ==
    (pc = "listed" /\ IsDir(before, Dir)) =>
        IF Listed = {} THEN result = Done("is empty")
        ELSE result = Listing([i \in 1..Len(NamesInOrder) |->
                                  ItemLine(before, EntryNamed(NamesInOrder[i]), args.detailed)])

\* ------------------------------------------- specification: failing handlers
\* The tools of the five modules, by the name they are registered under.
FileSystemTools ==
    {"read_file", "write_file", "delete_file", "list_directory", "create_directory",
     "delete_directory", "search_files", "get_file_info", "copy_file", "move_file",
     "format_json_file", "validate_json_file"}
ProcessTools ==
    {"get_process_tree", "get_top_cpu_processes", "get_top_memory_processes",
     "check_if_process_running", "list_processes", "get_process_info",
     "find_process_by_name"}
SystemResourceTools ==
    {"get_environment_variables", "get_installed_python_packages", "check_command_exists",
     "get_system_resources", "get_battery_status", "get_windows_version",
     "get_hardware_information", "list_installed_applications",
     "get_temperature_information"}
NetworkTools ==
    {"ping_host", "get_network_interfaces", "check_port_open", "get_active_connections"}
GitTools == {"git_status", "git_log", "git_branches", "git_diff", "git_config"}
DevelopmentTools ==
    GitTools \cup {"kill_process_on_port", "find_running_dev_servers", "check_common_dev_ports"}
AllTools ==
    FileSystemTools \cup ProcessTools \cup SystemResourceTools \cup NetworkTools
    \cup DevelopmentTools

\* the facilities a handler calls inside its try block
Uses(tool) ==
    IF tool \in FileSystemTools THEN {"path"}
    ELSE IF tool \in GitTools \/ tool = "ping_host" THEN {"subprocess"}
    ELSE IF tool \in {"get_windows_version", "list_installed_applications"} THEN {"registry"}
    ELSE IF tool \in {"check_port_open", "get_network_interfaces", "get_active_connections"}
    THEN {"socket", "psutil"}
    ELSE IF tool \in {"get_environment_variables", "get_installed_python_packages",
                      "check_command_exists"}
    THEN {"path"}
    ELSE {"psutil"}

\* how a facility fails: the exception it raises
Failures(facility) ==
    CASE facility = "path" ->
            {"FileNotFoundError", "PermissionError", "UnicodeDecodeError",
             "json.JSONDecodeError", "ValueError"}
      [] facility = "psutil" ->
            {"psutil.NoSuchProcess", "psutil.AccessDenied", "psutil.TimeoutExpired"}
      [] facility = "subprocess" ->
            {"subprocess.TimeoutExpired", "FileNotFoundError", "PermissionError"}
      [] facility = "registry" -> {"FileNotFoundError", "PermissionError", "OSError"}
      [] facility = "socket" -> {"OSError", "TimeoutError"}

\* the classes an exception is an instance of
Bases(exc) ==
    {exc, "Exception"} \cup
    (IF exc \in {"FileNotFoundError", "PermissionError", "TimeoutError"} THEN {"OSError"}
     ELSE IF exc \in {"UnicodeDecodeError", "json.JSONDecodeError"} THEN {"ValueError"}
     ELSE IF exc \in {"psutil.NoSuchProcess", "psutil.AccessDenied", "psutil.TimeoutExpired"}
     THEN {"psutil.Error"}
     ELSE IF exc = "subprocess.TimeoutExpired" THEN {"subprocess.SubprocessError"}
     ELSE {})

\* A faulty variant, for comparison: only the named exceptions are caught
Excepts_named_only(tool) ==
    IF tool \in {"format_json_file", "validate_json_file"} THEN <<"json.JSONDecodeError">>
    ELSE IF tool = "get_process_tree" THEN <<"psutil.NoSuchProcess">>
    ELSE IF tool = "get_process_info" THEN <<"psutil.NoSuchProcess", "psutil.AccessDenied">>
    ELSE IF tool = "ping_host" THEN <<"subprocess.TimeoutExpired">>
    ELSE IF tool \in GitTools THEN <<"subprocess.TimeoutExpired", "FileNotFoundError">>
    ELSE <<>>

\* the except clauses of a handler's try block, in order
Excepts(tool) ==
    IF tool \in {"format_json_file", "validate_json_file"}
    THEN <<"json.JSONDecodeError", "Exception">>
    ELSE IF tool = "get_process_tree" THEN <<"psutil.NoSuchProcess", "Exception">>
    ELSE IF tool = "get_process_info"
    THEN <<"psutil.NoSuchProcess", "psutil.AccessDenied", "Exception">>
    ELSE IF tool = "ping_host" THEN <<"subprocess.TimeoutExpired", "Exception">>
    ELSE IF tool \in GitTools
    THEN <<"subprocess.TimeoutExpired", "FileNotFoundError", "Exception">>
    ELSE <<"Exception">>

Raised(exc) == [kind |-> "raised", msg |-> exc, text |-> <<>>]

\* try: <body raises exc> except ...: return f"...": the first clause that
\* names a class of the exception returns its message
Handler(tool, exc) ==
    LET clauses == Excepts(tool)
        catching == {i \in 1..Len(clauses) : clauses[i] \in Bases(exc)}
    IN  IF catching = {} THEN Raised(exc)
        ELSE Msg(clauses[CHOOSE i \in catching : \A j \in catching : i <= j])

InitHandlers ==
    /\ platform = "posix"
    /\ fs = EmptyFs
    /\ before = fs
    /\ pc = "call"
    /\ \E tool \in AllTools :
          \E exc \in UNION {Failures(facility) : facility \in Uses(tool)} :
              args = [op |-> tool, failure |-> exc]
    /\ result = NoResult

FacilityFails ==
    /\ pc = "call"
    /\ result' = Handler(args.op, args.failure)
    /\ pc' = "handled"
    /\ UNCHANGED <<fs, platform, args, before>>

NextHandlers == FacilityFails

SpecHandlers == InitHandlers /\ [][NextHandlers]_vars

ThirdParty == {"fastmcp", "psutil", "pkg_resources"}
Stdlib ==
    {"os", "json", "shutil", "stat", "glob", "pathlib", "datetime", "subprocess",
     "platform", "socket"}

\* the modules named by the import lines of a module, in order
ModuleImports(module) ==
    CASE module = "fastmcp" -> <<"fastmcp">>
      [] module = "file_system" ->
            <<"os", "json", "shutil", "stat", "glob", "pathlib", "datetime", "fastmcp">>
      [] module = "process" -> <<"json", "psutil", "datetime", "fastmcp">>
      [] module = "system_resource" ->
            <<"os", "json", "shutil", "subprocess", "platform", "psutil", "pkg_resources",
              "winreg", "fastmcp">>
      [] module = "network" -> <<"socket", "subprocess", "platform", "psutil", "fastmcp">>

\* winreg is a module of the Windows build of Python only
Available(module, plat, installed) ==
    \/ module \in Stdlib
    \/ module \in installed
    \/ module = "winreg" /\ plat = "nt"

Started(kind, msg, registered) == [kind |-> kind, msg |-> msg, registered |-> registered]

InitStartup ==
    /\ platform \in {"posix", "nt"}
    /\ fs = EmptyFs
    /\ before = fs
    /\ pc = "import fastmcp"
    /\ \E installed \in SUBSET ThirdParty :
          args = [op |-> "start-up", installed |-> installed, names |-> {}, line |-> 1]
    /\ result = Started("none", "", {})

\* from <module> import <name>
ImportFrom(stmt, module, name, next) ==
    /\ pc = stmt
    /\ LET needs == ModuleImports(module)
       IN  IF ~Available(needs[args.line], platform, args.installed)
           THEN /\ pc' = "crashed"
                /\ result' = Started("ModuleNotFoundError", needs[args.line], result.registered)
                /\ args' = args
           ELSE IF args.line < Len(needs)
           THEN /\ pc' = pc
                /\ args' = [args EXCEPT !.line = @ + 1]
                /\ result' = result
           ELSE /\ pc' = next
                /\ args' = [args EXCEPT !.line = 1, !.names = @ \cup {name}]
                /\ result' = result
    /\ UNCHANGED <<fs, platform, before>>

\* <name>(mcp): the name is looked up in the module, then every tool of the
\* function is registered
Register(stmt, name, tools, next) ==
    /\ pc = stmt
    /\ IF name \in args.names
       THEN /\ pc' = next
            /\ result' = Started(result.kind, result.msg, result.registered \cup tools)
       ELSE /\ pc' = "crashed"
            /\ result' = Started("NameError", name, result.registered)
    /\ UNCHANGED <<fs, platform, args, before>>

ImportFastMCP ==
    ImportFrom("import fastmcp", "fastmcp", "FastMCP", "import file_system")
ImportFileSystem ==
    ImportFrom("import file_system", "file_system", "register_file_system_tools",
               "import process")
ImportProcess ==
    ImportFrom("import process", "process", "register_process_tools",
               "import system_resource")
ImportSystemResource ==
    ImportFrom("import system_resource", "system_resource",
               "register_system_resource_tools", "import network")
ImportNetwork ==
    ImportFrom("import network", "network", "register_network_tools", "create server")

\* mcp = FastMCP("System Monitoring & File Helper")
CreateServer == Register("create server", "FastMCP", {}, "register file system")

RegisterFileSystemTools ==
    Register("register file system", "register_file_system_tools", FileSystemTools,
             "register process")
RegisterProcessTools ==
    Register("register process", "register_process_tools", ProcessTools,
             "register system resource")
RegisterSystemResourceTools ==
    Register("register system resource", "register_system_resource_tools",
             SystemResourceTools, "register network")
RegisterNetworkTools ==
    Register("register network", "register_network_tools", NetworkTools,
             "register development")
\* server.py has no import of register_development_tools; mcp.run() comes
\* after this statement
RegisterDevelopmentTools ==
    Register("register development", "register_development_tools", DevelopmentTools, "run")

NextStartup ==
    \/ ImportFastMCP \/ ImportFileSystem \/ ImportProcess \/ ImportSystemResource
    \/ ImportNetwork \/ CreateServer
    \/ RegisterFileSystemTools \/ RegisterProcessTools \/ RegisterSystemResourceTools
    \/ RegisterNetworkTools \/ RegisterDevelopmentTools

SpecStartup == InitStartup /\ [][NextStartup]_vars

\* the platform test at the head of the two registry tools
get_windows_version(plat) ==
    IF plat # "nt" THEN Done("only available on Windows")
    ELSE Done("Windows Version Information")

list_installed_applications(plat) ==
    IF plat # "nt" THEN Done("only available on Windows")
    ELSE Done("Installed Applications")

\* C18: on a machine that has everything the server needs, start-up does not
\* stop before mcp.run(), and by then the tools of all five modules are
\* registered.
C18_StartupCompletes ==
    (platform = "nt" /\ args.installed = ThirdParty) =>
        /\ pc # "crashed"
        /\ pc = "run" => result.registered = AllTools

\* C19: off Windows, with the packages installed, the two registry tools
\* answer 'only available on Windows' and start-up gets the system-resource
\* tools registered and the server running.
C19_DegradesOffWindows ==
    (platform # "nt" /\ args.installed = ThirdParty) =>
        /\ get_windows_version(platform) = Done("only available on Windows")
        /\ list_installed_applications(platform) = Done("only available on Windows")
        /\ pc # "crashed"
        /\ pc \in {"register network", "register development", "run"}
              => SystemResourceTools \subseteq result.registered

\* ------------------------------------- specification: kill_process_on_port
\* In this specification fs is the process table of the machine (pid to
\* [alive, denied]), args the handler's locals (port, the connections that
\* psutil.net_connections returned, the index of the connection the loop is
\* at, the seconds process.wait has waited), result the killed_processes
\* list with the text returned, and before the signals sent and the exits
\* of processes so far, in order.  Signals are the psutil calls of the
\* handler: terminate() and kill().
MaxConns == 2
GraceSeconds == 3
Pids == {1, 2}
Ports == {3000, 8080}

\* a connection without a pid has pid 0
Connections ==
    UNION {[1..n -> [port : Ports, pid : Pids \cup {0}]] : n \in 0..MaxConns}

Report(kind, pid) == [kind |-> kind, pid |-> pid, iter |-> args.i]
Event(sig, pid) == [sig |-> sig, pid |-> pid, iter |-> args.i, waited |-> args.waited]
Cleanup(lines, text) == [kind |-> "ok", killed_processes |-> lines, text |-> text]

Conn == args.conns[args.i]

\* process.wait(timeout=3) gives up
TimedOut_at_once(waited) == waited >= 0

TimedOut(waited) == waited = GraceSeconds

InitKill ==
    /\ platform = "posix"
    /\ fs \in [Pids -> [alive : BOOLEAN, denied : BOOLEAN]]
    /\ before = <<>>
    /\ pc = "call"
    /\ \E port \in Ports, conns \in Connections, listing \in {"ok", "AccessDenied"} :
          args = [op |-> "kill_process_on_port", port |-> port, conns |-> conns,
                  listing |-> listing, i |-> 1, waited |-> 0]
    /\ result = Cleanup(<<>>, "")

\* the end of one iteration of the for loop, with a line appended
Append_line(kind) ==
    /\ result' = Cleanup(Append(result.killed_processes, Report(kind, Conn.pid)), "")
    /\ args' = [args EXCEPT !.i = @ + 1, !.waited = 0]
    /\ pc' = "loop"

\* psutil.net_connections(kind='inet')
NetConnections ==
    /\ pc = "call"
    /\ IF args.listing = "ok"
       THEN pc' = "loop" /\ result' = result
       ELSE /\ pc' = "done"
            /\ result' = [kind |-> "error", killed_processes |-> <<>>,
                           text |-> "Error killing processes on port"]
    /\ UNCHANGED <<fs, platform, args, before>>

\* for conn in ...: if conn.laddr and conn.laddr.port == port: if conn.pid:
NextConnection ==
    /\ pc = "loop"
    /\ args.i <= Len(args.conns)
    /\ IF Conn.port = args.port /\ Conn.pid # 0
       THEN pc' = "lookup" /\ args' = args
       ELSE pc' = "loop" /\ args' = [args EXCEPT !.i = @ + 1]
    /\ UNCHANGED <<fs, platform, result, before>>

\* process = psutil.Process(conn.pid); process.name()
Lookup ==
    /\ pc = "lookup"
    /\ IF fs[Conn.pid].alive
       THEN pc' = "terminate" /\ UNCHANGED <<args, result>>
       ELSE Append_line("Could not kill: NoSuchProcess")
    /\ UNCHANGED <<fs, platform, before>>

\* process.terminate()
Terminate ==
    /\ pc = "terminate"
    /\ IF ~fs[Conn.pid].alive
       THEN Append_line("Could not kill: NoSuchProcess") /\ before' = before
       ELSE IF fs[Conn.pid].denied
       THEN Append_line("Could not kill: AccessDenied") /\ before' = before
       ELSE /\ before' = Append(before, Event("terminate", Conn.pid))
            /\ pc' = "wait"
            /\ UNCHANGED <<args, result>>
    /\ UNCHANGED <<fs, platform>>

\* process.wait(timeout=3): a second passes with the process still there
Tick ==
    /\ pc = "wait"
    /\ fs[Conn.pid].alive
    /\ ~TimedOut(args.waited)
    /\ args' = [args EXCEPT !.waited = @ + 1]
    /\ UNCHANGED <<fs, platform, pc, result, before>>

\* process.wait returns: the process is gone
WaitReturns ==
    /\ pc = "wait"
    /\ ~fs[Conn.pid].alive
    /\ Append_line("Terminated")
    /\ UNCHANGED <<fs, platform, before>>

\* except psutil.TimeoutExpired:
WaitTimesOut ==
    /\ pc = "wait"
    /\ fs[Conn.pid].alive
    /\ TimedOut(args.waited)
    /\ pc' = "kill"
    /\ UNCHANGED <<fs, platform, args, result, before>>

\* process.kill(); the killed process may be seen for a moment longer
Kill ==
    /\ pc = "kill"
    /\ IF ~fs[Conn.pid].alive
       THEN Append_line("Could not kill: NoSuchProcess") /\ UNCHANGED <<fs, before>>
       ELSE /\ before' = Append(before, Event("kill", Conn.pid))
            /\ \E seen \in BOOLEAN : fs' = [fs EXCEPT ![Conn.pid].alive = seen]
            /\ Append_line("Force killed")
    /\ UNCHANGED platform

\* if not killed_processes: return ...; return "Port ... cleanup results"
Finish ==
    /\ pc = "loop"
    /\ args.i > Len(args.conns)
    /\ pc' = "done"
    /\ result' = Cleanup(result.killed_processes,
                         IF result.killed_processes = <<>> THEN "No processes found running on port"
                         ELSE "Port cleanup results")
    /\ UNCHANGED <<fs, platform, args, before>>

\* a process exits, of itself or on the terminate signal
ProcessExits ==
    /\ pc \notin {"call", "done"}
    /\ \E pid \in Pids :
          /\ fs[pid].alive
          /\ fs' = [fs EXCEPT ![pid].alive = FALSE]
          /\ before' = Append(before, Event("exit", pid))
    /\ UNCHANGED <<platform, pc, args, result>>

NextKill ==
    \/ NetConnections \/ NextConnection \/ Lookup \/ Terminate \/ Tick
    \/ WaitReturns \/ WaitTimesOut \/ Kill \/ Finish \/ ProcessExits

SpecKill == InitKill /\ [][NextKill]_vars

\* the connections the handler acts on
OnPort == SelectSeq(args.conns, LAMBDA c : c.port = args.port /\ c.pid # 0)

Sent(sig) == {k \in 1..Len(before) : before[k].sig = sig}

\* C20: a kill is sent only to a process that was sent terminate in the same
\* iteration, after the whole grace wait and never after the process's exit;
\* an iteration reported as terminated sent no kill; and when the handler
\* returns its results there is one line per connection with a pid on the
\* port, in order, the processes that could not be signalled included.
C20_TwoPhaseOrder ==
    /\ \A k \in Sent("kill") :
          /\ before[k].waited = GraceSeconds
          /\ \E j \in Sent("terminate") :
                /\ j < k
                /\ before[j].pid = before[k].pid
                /\ before[j].iter = before[k].iter
          /\ \A j \in Sent("exit") : before[j].pid = before[k].pid => j > k
    /\ \A n \in 1..Len(result.killed_processes) :
          /\ n <= Len(OnPort)
          /\ result.killed_processes[n].pid = OnPort[n].pid
          /\ result.killed_processes[n].kind = "Terminated" =>
                \A k \in Sent("kill") : before[k].iter # result.killed_processes[n].iter
    /\ (pc = "done" /\ result.kind = "ok") =>
          Len(result.killed_processes) = Len(OnPort)

\* one process ignored terminate and was killed after the grace wait, one
\* could not be signalled, and both are in the results
C20_Witness ==
    /\ pc = "done"
    /\ Sent("kill") # {}
    /\ Len(result.killed_processes) = 2
    /\ result.killed_processes[1].kind = "Could not kill: AccessDenied"
    /\ result.killed_processes[2].kind = "Force killed"

\* ------------------------------ specification: the process-enumeration tools
\* In this specification fs is the process table of the machine: for each
\* pid whether the process is there and what psutil may read of it.  A
\* process of state "vanished" went away after the pids were listed; of a
\* process of state "name denied" the name cannot be read, of one of state
\* "denied" no field but the pid.
MaxProcs == 2
ProcPids == 1..MaxProcs
ProcStates == {"ok", "name denied", "denied", "vanished"}
ProcNames == {<<"a", "t">>, <<"A">>}
NA == <<"N", "/", "A">>

ProcessTables ==
    [ProcPids -> [state : ProcStates, name : ProcNames, cpu_percent : 0..1,
                  rss : 0..1]]

\* the fields of a process that as_dict filled with ad_value (None)
NoneFields(p) ==
    CASE p.state = "name denied" -> {"name"}
      [] p.state = "denied" -> {"name", "cpu_percent", "memory_info", "status"}
      [] OTHER -> {}

\* proc.info of psutil.process_iter(attrs)
ProcInfo(table, pid) ==
    [pid |-> pid, name |-> table[pid].name, cpu_percent |-> table[pid].cpu_percent,
     rss |-> table[pid].rss, status |-> "running", none |-> NoneFields(table[pid])]

\* psutil.process_iter: in pid order, a process that vanished is left out
RECURSIVE ProcessIterFrom(_, _)
ProcessIterFrom(table, pid) ==
    IF pid > MaxProcs THEN <<>>
    ELSE IF table[pid].state = "vanished" THEN ProcessIterFrom(table, pid + 1)
    ELSE <<ProcInfo(table, pid)>> \o ProcessIterFrom(table, pid + 1)

ProcessIter(table) == ProcessIterFrom(table, 1)

\* x['cpu_percent'] or 0, info['memory_info'].rss if info['memory_info'] else 0,
\* proc['name'] or 'N/A', proc['status'] or 'N/A'
CpuOf(info) == IF "cpu_percent" \in info.none THEN 0 ELSE info.cpu_percent
MemoryRss(info) == IF "memory_info" \in info.none THEN 0 ELSE info.rss
NameOf(info) == IF "name" \in info.none THEN NA ELSE info.name
StatusOf(info) == IF "status" \in info.none THEN "N/A" ELSE info.status

\* list.sort(key=..., reverse=True) and list.sort(key=...): stable
\* the sort keys of the three listings
SortKey(info, key) ==
    CASE key = "cpu_percent" -> CpuOf(info)
      [] key = "memory_rss" -> MemoryRss(info)
      [] key = "pid" -> info.pid

RECURSIVE InsertByKey(_, _, _, _)
InsertByKey(x, sorted, key, descending) ==
    IF sorted = <<>> THEN <<x>>
    ELSE IF (descending /\ SortKey(x, key) > SortKey(Head(sorted), key))
            \/ (~descending /\ SortKey(x, key) < SortKey(Head(sorted), key))
    THEN <<x>> \o sorted
    ELSE <<Head(sorted)>> \o InsertByKey(x, Tail(sorted), key, descending)

RECURSIVE SortByKey(_, _, _)
SortByKey(items, key, descending) ==
    IF items = <<>> THEN <<>>
    ELSE InsertByKey(items[Len(items)],
                     SortByKey(SubSeq(items, 1, Len(items) - 1), key, descending),
                     key, descending)

\* processes[:limit]
Slice(items, limit) ==
    IF limit >= 0
    THEN SubSeq(items, 1, IF limit < Len(items) THEN limit ELSE Len(items))
    ELSE SubSeq(items, 1, Len(items) + limit)

Rows(rows) == [kind |-> "ok", msg |-> "", rows |-> rows]
ProcError(msg) == [kind |-> "error", msg |-> msg, rows |-> <<>>]
Row(info) ==
    [pid |-> info.pid, cpu |-> CpuOf(info), memory |-> MemoryRss(info),
     status |-> StatusOf(info), name |-> NameOf(info)]
RowsOf(infos) == [i \in 1..Len(infos) |-> Row(infos[i])]

get_top_cpu_processes(table, limit) ==
    Rows(RowsOf(Slice(SortByKey(ProcessIter(table), "cpu_percent", TRUE), limit)))

get_top_memory_processes(table, limit) ==
    Rows(RowsOf(Slice(SortByKey(ProcessIter(table), "memory_rss", TRUE), limit)))

list_processes(table) ==
    Rows(RowsOf(SortByKey(ProcessIter(table), "pid", FALSE)))

\* name.lower() in proc.info['name'].lower(): a name that is None has no
\* lower(), the AttributeError is not one of the exceptions of the loop's try
NameMatches(info, name) == Contains(Lower(info.name), Lower(name))
NoneNamed(infos) == \E i \in 1..Len(infos) : "name" \in infos[i].none

check_if_process_running(table, name) ==
    IF NoneNamed(ProcessIter(table))
    THEN ProcError("Error checking if process is running")
    ELSE Rows(RowsOf(SelectSeq(ProcessIter(table), LAMBDA info : NameMatches(info, name))))

find_process_by_name(table, name) ==
    IF NoneNamed(ProcessIter(table))
    THEN ProcError("Error finding processes")
    ELSE Rows(RowsOf(SelectSeq(ProcessIter(table), LAMBDA info : NameMatches(info, name))))

Limits == -1..(MaxProcs + 1)
NameQueries == {<<"a">>, <<"T">>}

InitProc ==
    /\ platform = "posix"
    /\ fs \in ProcessTables
    /\ before = fs
    /\ pc = "call"
    /\ \/ \E op \in {"get_top_cpu_processes", "get_top_memory_processes"}, limit \in Limits :
             args = [op |-> op, limit |-> limit, name |-> <<>>]
       \/ \E op \in {"check_if_process_running", "find_process_by_name"},
             name \in NameQueries :
             args = [op |-> op, limit |-> 0, name |-> name]
       \/ args = [op |-> "list_processes", limit |-> 0, name |-> <<>>]
    /\ result = Rows(<<>>)

ProcCall(op, reply) ==
    /\ pc = "call"
    /\ args.op = op
    /\ result' = reply
    /\ pc' = "returned"
    /\ UNCHANGED <<fs, platform, args, before>>

GetTopCpuProcesses ==
    ProcCall("get_top_cpu_processes", get_top_cpu_processes(fs, args.limit))
GetTopMemoryProcesses ==
    ProcCall("get_top_memory_processes", get_top_memory_processes(fs, args.limit))
CheckIfProcessRunning ==
    ProcCall("check_if_process_running", check_if_process_running(fs, args.name))
ListProcesses == ProcCall("list_processes", list_processes(fs))
FindProcessByName ==
    ProcCall("find_process_by_name", find_process_by_name(fs, args.name))

NextProc ==
    \/ GetTopCpuProcesses \/ GetTopMemoryProcesses \/ CheckIfProcessRunning
    \/ ListProcesses \/ FindProcessByName

SpecProc == InitProc /\ [][NextProc]_vars

RowPids == {result.rows[i].pid : i \in 1..Len(result.rows)}
Readable == {pid \in ProcPids : fs[pid].state = "ok"}
There == {pid \in ProcPids : fs[pid].state # "vanished"}

\* C21: a process that vanished or whose fields cannot be read never turns a
\* call of an enumeration tool into an error; the processes that can be read
\* (and match the name asked for) are in the listing, and a row whose name
\* could not be read shows the placeholder.
C21_FailingProcessDegrades ==
    pc = "returned" =>
        /\ result.kind = "ok"
        /\ args.op = "list_processes" => Readable \subseteq RowPids
        /\ args.op \in {"check_if_process_running", "find_process_by_name"} =>
              \A pid \in Readable :
                  Contains(Lower(fs[pid].name), Lower(args.name)) => pid \in RowPids
        /\ \A i \in 1..Len(result.rows) :
              fs[result.rows[i].pid].state \in {"name denied", "denied"} =>
                  result.rows[i].name = NA

Descending(values) == \A i \in 1..(Len(values) - 1) : values[i] >= values[i + 1]
Ascending(values) == \A i \in 1..(Len(values) - 1) : values[i] <= values[i + 1]
Shown(rows, Value(_)) == [i \in 1..Len(rows) |-> Value(rows[i])]
RowUsage(row) == IF args.op = "get_top_cpu_processes" THEN row.cpu ELSE row.memory
RowPid(row) == row.pid
UsageOf(pid) ==
    IF fs[pid].state = "denied" THEN 0
    ELSE IF args.op = "get_top_cpu_processes" THEN fs[pid].cpu_percent ELSE fs[pid].rss

\* C23: the two top-N tools return min(limit, n) rows for a limit of 0 or
\* more and no row for a negative limit, in descending order of the value,
\* no process left out having a higher value than one shown; list_processes
\* returns every process in ascending order of pid.
C23_TopRowsAndOrder ==
    pc = "returned" =>
        /\ args.op \in {"get_top_cpu_processes", "get_top_memory_processes"} =>
              /\ Len(result.rows) =
                    IF args.limit < 0 THEN 0
                    ELSE IF args.limit < Cardinality(There) THEN args.limit
                    ELSE Cardinality(There)
              /\ Cardinality(RowPids) = Len(result.rows)
              /\ Descending(Shown(result.rows, RowUsage))
              /\ \A shown \in RowPids, left \in There \ RowPids :
                    UsageOf(left) <= UsageOf(shown)
        /\ args.op = "list_processes" =>
              /\ RowPids = There
              /\ Len(result.rows) = Cardinality(There)
              /\ Ascending(Shown(result.rows, RowPid))

\* ------------------------------------------ specification: get_process_tree
\* fs is the process table with the parent of each process (0: a parent
\* outside the table).  A process of state "absent" does not exist when the
\* call begins; one of state "vanished" is there when it is listed and gone
\* when it is read; of one of state "denied" nothing can be read; one of
\* state "gone after read" goes away between memory_info() and children().
MaxTreeProcs == 3
TreePids == 1..MaxTreeProcs
TreeStates == {"ok", "denied", "vanished", "gone after read", "absent"}

ProcessTrees ==
    {t \in [TreePids -> [state : TreeStates, ppid : 0..MaxTreeProcs]] :
        \A pid \in TreePids : t[pid].ppid < pid}

\* proc.children(), in pid order
RECURSIVE ChildrenFrom(_, _, _)
ChildrenFrom(table, parent, pid) ==
    IF pid > MaxTreeProcs THEN <<>>
    ELSE IF table[pid].ppid = parent /\ table[pid].state # "absent"
    THEN <<pid>> \o ChildrenFrom(table, parent, pid + 1)
    ELSE ChildrenFrom(table, parent, pid + 1)

Children(table, parent) == ChildrenFrom(table, parent, 1)

TreeLine(level, pid, shown) == [level |-> level, pid |-> pid, shown |-> shown]

RECURSIVE build_tree(_, _, _)

\* a walk that ends at the first child that cannot be read
RECURSIVE ChildLines_abort(_, _, _)
ChildLines_abort(table, kids, level) ==
    IF kids = <<>> THEN <<>>
    ELSE build_tree(table, Head(kids), level)
         \o (IF table[Head(kids)].state = "ok"
             THEN ChildLines_abort(table, Tail(kids), level) ELSE <<>>)

\* for child in children: result += build_tree(child, level + 1)
RECURSIVE ChildLines(_, _, _)
ChildLines(table, kids, level) ==
    IF kids = <<>> THEN <<>>
    ELSE build_tree(table, Head(kids), level) \o ChildLines(table, Tail(kids), level)

build_tree(table, pid, level) ==
    IF table[pid].state = "ok"
    THEN <<TreeLine(level, pid, "line")>>
         \o ChildLines(table, Children(table, pid), level + 1)
    ELSE <<TreeLine(level, pid, "<access denied>")>>

Tree(lines) == [kind |-> "ok", msg |-> "Process Tree for PID", lines |-> lines]
TreeError(msg) == [kind |-> "error", msg |-> msg, lines |-> <<>>]

get_process_tree(table, pid) ==
    IF table[pid].state = "absent" THEN TreeError("Process with PID not found")
    ELSE Tree(build_tree(table, pid, 0))

InitTree ==
    /\ platform = "posix"
    /\ fs \in ProcessTrees
    /\ before = fs
    /\ pc = "call"
    /\ \E pid \in TreePids : args = [op |-> "get_process_tree", pid |-> pid]
    /\ result = Tree(<<>>)

GetProcessTree ==
    /\ pc = "call"
    /\ result' = get_process_tree(fs, args.pid)
    /\ pc' = "returned"
    /\ UNCHANGED <<fs, platform, args, before>>

NextTree == GetProcessTree

SpecTree == InitTree /\ [][NextTree]_vars

\* the number of parent links from pid up to the root of the call, or -1
\* when pid is not below the root through processes that could be read
RECURSIVE DepthBelow(_, _)
DepthBelow(pid, root) ==
    IF pid = root THEN 0
    ELSE IF fs[pid].ppid = 0 \/ fs[pid].state = "absent" \/ fs[fs[pid].ppid].state # "ok"
    THEN -1
    ELSE IF DepthBelow(fs[pid].ppid, root) < 0 THEN -1
    ELSE DepthBelow(fs[pid].ppid, root) + 1

LinesOf(pid) == {i \in 1..Len(result.lines) : result.lines[i].pid = pid}

\* C22: when the process asked for exists, the call returns the tree; every
\* process reached through readable ancestors has exactly one line, at the
\* depth of its distance from the root, a placeholder when it cannot be read
\* or has vanished; nothing else is in the tree.
C22_WalkGoesOn ==
    (pc = "returned" /\ fs[args.pid].state # "absent") =>
        /\ result.kind = "ok"
        /\ \A pid \in TreePids :
              IF DepthBelow(pid, args.pid) < 0 THEN LinesOf(pid) = {}
              ELSE /\ Cardinality(LinesOf(pid)) = 1
                   /\ \A i \in LinesOf(pid) :
                         /\ result.lines[i].level = DepthBelow(pid, args.pid)
                         /\ result.lines[i].shown = "line" <=> fs[pid].state = "ok"

\* a child that cannot be read, and after it a sibling that can
C22_Witness ==
    /\ pc = "returned"
    /\ Len(result.lines) = 3
    /\ result.lines[2] = TreeLine(1, 2, "<access denied>")
    /\ result.lines[3] = TreeLine(1, 3, "line")

\* ------------------------------------------------ specification: git tools
\* In this specification fs is the machine the tool runs on: whether a git
\* executable is in PATH and what the directory given as cwd is.  args holds
\* the tool called and what each git subprocess it may start would do.
NOT_A_REPO == "fatal: not a git repository (or any of the parent directories): .git"
OTHER_STDERR == "error: unknown option"

Exit(returncode, stdout, stderr) ==
    [timeout |-> FALSE, returncode |-> returncode, stdout |-> stdout, stderr |-> stderr]
TimeoutExpired == [timeout |-> TRUE, returncode |-> 0, stdout |-> "", stderr |-> ""]

GitOutcomes ==
    {TimeoutExpired, Exit(0, "", ""), Exit(0, "out", ""), Exit(128, "", NOT_A_REPO),
     Exit(1, "", OTHER_STDERR)}

GitOps == {"git_status", "git_log", "git_branches", "git_diff", "git_config"}

\* subprocess.run(["git", ...], cwd=directory): what starting the child
\* process can raise.  On POSIX a missing cwd and a missing executable are
\* both FileNotFoundError; on Windows a missing cwd is NotADirectoryError.
Spawn(plat, machine) ==
    IF plat = "posix"
    THEN IF machine.directory = "missing" \/ ~machine.git THEN {"FileNotFoundError"}
         ELSE {"started"}
    ELSE IF ~machine.git /\ machine.directory = "missing"
         THEN {"FileNotFoundError", "NotADirectoryError"}
    ELSE IF ~machine.git THEN {"FileNotFoundError"}
    ELSE IF machine.directory = "missing" THEN {"NotADirectoryError"}
    ELSE {"started"}

GitReply(kind, msg, stderr, ran) ==
    [kind |-> kind, msg |-> msg, stderr |-> stderr, ran |-> ran]

\* the except clauses of a git tool
GitExcept(spawned) ==
    IF spawned = "FileNotFoundError"
    THEN GitReply("error", "Git is not installed or not in PATH", "", 0)
    ELSE GitReply("error", "Error", "", 0)

\* if result.returncode != 0: ... of the tools that look for the repository
GitFailed(run) ==
    IF run.stderr = NOT_A_REPO
    THEN GitReply("error", "is not a Git repository", "", 1)
    ELSE GitReply("error", "Git error", run.stderr, 1)

\* a tool of one subprocess: git_status, git_log, git_diff
GitOne(spawned, run, empty, shown) ==
    IF spawned # "started" THEN GitExcept(spawned)
    ELSE IF run.timeout THEN GitReply("error", "timed out", "", 1)
    ELSE IF run.returncode # 0 THEN GitFailed(run)
    ELSE IF run.stdout = "" THEN GitReply("ok", empty, "", 1)
    ELSE GitReply("ok", shown, "", 1)

git_status(spawned, run) == GitOne(spawned, run, "is clean (no changes)", "Git Status")
git_log(spawned, run) == GitOne(spawned, run, "No commits found", "Git Log")
git_diff(spawned, run) == GitOne(spawned, run, "No differences found", "Git Diff")

git_branches(spawned, local_result, remote_result) ==
    IF spawned # "started" THEN GitExcept(spawned)
    ELSE IF local_result.timeout THEN GitReply("error", "timed out", "", 1)
    ELSE IF local_result.returncode # 0 THEN GitFailed(local_result)
    ELSE IF remote_result.timeout THEN GitReply("error", "timed out", "", 2)
    ELSE IF remote_result.returncode = 0 /\ remote_result.stdout # ""
    THEN GitReply("ok", "Git Branches (local and remote)", "", 2)
    ELSE GitReply("ok", "Git Branches", "", 2)

git_config(spawned, run) ==
    IF spawned # "started" THEN GitExcept(spawned)
    ELSE IF run.timeout THEN GitReply("error", "timed out", "", 1)
    ELSE IF run.returncode # 0 THEN GitReply("error", "Git config error", run.stderr, 1)
    ELSE IF run.stdout = "" THEN GitReply("ok", "No Git configuration found", "", 1)
    ELSE GitReply("ok", "Git Configuration", "", 1)

InitGit ==
    /\ platform \in {"posix", "nt"}
    /\ fs \in [git : BOOLEAN, directory : {"directory", "missing"}]
    /\ before = fs
    /\ pc = "call"
    /\ \E op \in GitOps, first \in GitOutcomes, second \in GitOutcomes :
          args = [op |-> op, runs |-> <<first, second>>]
    /\ result = GitReply("none", "", "", 0)

GitCall(op, Answer(_)) ==
    /\ pc = "call"
    /\ args.op = op
    /\ \E spawned \in Spawn(platform, fs) : result' = Answer(spawned)
    /\ pc' = "returned"
    /\ UNCHANGED <<fs, platform, args, before>>

StatusReply(spawned) == git_status(spawned, args.runs[1])
LogReply(spawned) == git_log(spawned, args.runs[1])
BranchesReply(spawned) == git_branches(spawned, args.runs[1], args.runs[2])
DiffReply(spawned) == git_diff(spawned, args.runs[1])
ConfigReply(spawned) == git_config(spawned, args.runs[1])

GitStatus == GitCall("git_status", StatusReply)
GitLog == GitCall("git_log", LogReply)
GitBranches == GitCall("git_branches", BranchesReply)
GitDiff == GitCall("git_diff", DiffReply)
GitConfig == GitCall("git_config", ConfigReply)

NextGit == GitStatus \/ GitLog \/ GitBranches \/ GitDiff \/ GitConfig

SpecGit == InitGit /\ [][NextGit]_vars

\* the subprocesses of the call that ran to their exit
Exited == {k \in 1..result.ran : ~args.runs[k].timeout}

\* C24: of every git subprocess a tool ran, a non-zero exit whose stderr says
\* 'not a git repository' gives the not-a-Git-repository message and any
\* other non-zero exit gives a result that holds the stderr text.
C24_NonZeroExitReported ==
    pc = "returned" =>
        \A k \in Exited :
            args.runs[k].returncode # 0 =>
                IF args.runs[k].stderr = NOT_A_REPO
                THEN result.msg = "is not a Git repository"
                ELSE result.stderr = args.runs[k].stderr

\* C25: the git-not-installed message is returned only when no git
\* executable is in PATH, and a timed-out message only when a subprocess of
\* the call exceeded its timeout.
C25_AbsenceAndTimeoutDistinct ==
    pc = "returned" =>
        /\ result.msg = "Git is not installed or not in PATH" => ~fs.git
        /\ result.msg = "timed out" => \E k \in 1..result.ran : args.runs[k].timeout

\* ------------------------------- specification: resources of a tool call
\* In this specification fs is the set of handles (sockets, files) the
\* process holds open, args the call being served and what fails in it, and
\* before the handles open when the call began.  A handle is [kind, call].
MaxCalls == 3

ResourceOps ==
    {"check_port_open", "read_file", "write_file", "format_json_file", "validate_json_file"}

\* what can go wrong in a call: nothing, the acquisition itself (open() of a
\* missing or protected file), or the use of the resource (connect_ex of a
\* host that cannot be resolved, a read that cannot be decoded, json.load of
\* a text that is no JSON, a write that cannot be encoded)
Faults == {"none", "acquire", "use"}

Held(kind, call) == [kind |-> kind, call |-> call]
Outcome_of(kind, msg) == [kind |-> kind, msg |-> msg]

ResourceCall(n, op, fault) == [op |-> op, fault |-> fault, n |-> n]

InitResources ==
    /\ platform = "posix"
    /\ fs = {}
    /\ before = {}
    /\ pc = "call"
    /\ \E op \in ResourceOps, fault \in Faults : args = ResourceCall(1, op, fault)
    /\ result = Outcome_of("none", "")

\* except Exception as e: return f"Error ...: {str(e)}"
Caught ==
    /\ result' = Outcome_of("error", "Error")
    /\ pc' = "returned"

\* sock = socket.socket(socket.AF_INET, socket.SOCK_STREAM); sock.settimeout(5)
SocketCreate ==
    /\ pc = "call"
    /\ args.op = "check_port_open"
    /\ IF args.fault = "acquire"
       THEN Caught /\ fs' = fs
       ELSE /\ fs' = fs \cup {Held("socket", args.n)}
            /\ pc' = "connect"
            /\ result' = result
    /\ UNCHANGED <<platform, args, before>>

\* result = sock.connect_ex((host, port)): an errno is returned, a host that
\* cannot be resolved or a port out of range is raised
ConnectEx ==
    /\ pc = "connect"
    /\ IF args.fault = "use"
       THEN Caught
       ELSE pc' = "close" /\ result' = result
    /\ UNCHANGED <<fs, platform, args, before>>

\* sock.close(); return "Port ... is OPEN" or "... is CLOSED or filtered"
SockClose ==
    /\ pc = "close"
    /\ fs' = fs \ {Held("socket", args.n)}
    /\ \E state \in {"is OPEN", "is CLOSED or filtered"} : result' = Outcome_of("ok", state)
    /\ pc' = "returned"
    /\ UNCHANGED <<platform, args, before>>

\* with open(path, mode, encoding=...) as f:
Open ==
    /\ pc \in {"call", "reopen"}
    /\ args.op # "check_port_open"
    /\ IF args.fault = "acquire" /\ pc = "call"
       THEN Caught /\ fs' = fs
       ELSE /\ fs' = fs \cup {Held("file", args.n)}
            /\ pc' = IF pc = "call" THEN "opened" ELSE "reopened"
            /\ result' = result
    /\ UNCHANGED <<platform, args, before>>

\* the body of the with statement and its end: the file is closed whether
\* the body raised or not; format_json_file then opens the file once more
WithBody ==
    /\ pc \in {"opened", "reopened"}
    /\ fs' = fs \ {Held("file", args.n)}
    /\ IF args.fault = "use" /\ pc = "opened"
       THEN /\ pc' = "returned"
            /\ result' = IF args.op \in {"format_json_file", "validate_json_file"}
                         THEN Outcome_of("error", "Invalid JSON")
                         ELSE Outcome_of("error", "Error")
       ELSE IF args.op = "format_json_file" /\ pc = "opened"
       THEN pc' = "reopen" /\ result' = result
       ELSE pc' = "returned" /\ result' = Outcome_of("ok", "Successfully")
    /\ UNCHANGED <<platform, args, before>>

\* a socket no name refers to any more is closed when the interpreter
\* reclaims the object
Finalize ==
    /\ pc = "returned"
    /\ \E h \in fs :
          /\ h.kind = "socket"
          /\ fs' = fs \ {h}
    /\ UNCHANGED <<platform, pc, args, result, before>>

\* the server takes the next call
NextToolCall ==
    /\ pc = "returned"
    /\ args.n < MaxCalls
    /\ \E op \in ResourceOps, fault \in Faults : args' = ResourceCall(args.n + 1, op, fault)
    /\ pc' = "call"
    /\ before' = fs
    /\ UNCHANGED <<fs, platform, result>>

NextResources ==
    SocketCreate \/ ConnectEx \/ SockClose \/ Open \/ WithBody \/ Finalize \/ NextToolCall

SpecResources == InitResources /\ [][NextResources]_vars

\* C26: when a call has returned, with a result or with an error, nothing it
\* acquired is still open.
C26_ReleasedOnReturn ==
    pc = "returned" => \A h \in fs : h.call # args.n

\* ------------------------- specification: two calls on the same destination
\* Two callers, each with a source file of its own, copy or move to the same
\* destination with overwrite=False.  In this specification fs maps the three
\* paths to the content of the file there ("" when nothing is there), args
\* holds the two calls, and pc and result have one entry per caller.  A call
\* is two steps, as in the handlers: the tests of source and destination,
\* then shutil.copy2 or shutil.move.
Callers == {1, 2}
NoFile == ""
Contents == {"x", "y"}
SrcOf(caller) == IF caller = 1 THEN "src1" ELSE "src2"
Other(caller) == 3 - caller

InitRace ==
    /\ platform \in {"posix", "nt"}
    /\ \E c1 \in Contents, c2 \in Contents, d \in {NoFile, "z"} :
          fs = [p \in {"src1", "src2", "dst"} |->
                   IF p = "src1" THEN c1 ELSE IF p = "src2" THEN c2 ELSE d]
    /\ before = fs
    /\ pc = [c \in Callers |-> "call"]
    /\ args \in [Callers -> [op : {"copy_file", "move_file"}]]
    /\ result = [c \in Callers |-> Msg("")]

\* if not src.exists(): ...  if dst.exists() and not overwrite: ...
CheckExists(caller) ==
    /\ pc[caller] = "call"
    /\ IF fs[SrcOf(caller)] = NoFile
       THEN /\ result' = [result EXCEPT ![caller] = Msg("does not exist")]
            /\ pc' = [pc EXCEPT ![caller] = "returned"]
       ELSE IF fs["dst"] # NoFile
       THEN /\ result' = [result EXCEPT ![caller] = Msg("already exists")]
            /\ pc' = [pc EXCEPT ![caller] = "returned"]
       ELSE /\ result' = result
            /\ pc' = [pc EXCEPT ![caller] = "checked"]
    /\ UNCHANGED <<fs, platform, args, before>>

\* shutil.copy2(src, dst): the destination is opened for writing whether it
\* is there or not
CopyStep(caller) ==
    /\ pc[caller] = "checked"
    /\ args[caller].op = "copy_file"
    /\ fs' = [fs EXCEPT !["dst"] = fs[SrcOf(caller)]]
    /\ result' = [result EXCEPT ![caller] = Done("Successfully copied")]
    /\ pc' = [pc EXCEPT ![caller] = "returned"]
    /\ UNCHANGED <<platform, args, before>>

\* shutil.move(str(src), str(dst)): os.rename replaces a destination that is
\* there; where it does not (Windows), shutil.move copies over it and
\* removes the source
MoveStep(caller) ==
    /\ pc[caller] = "checked"
    /\ args[caller].op = "move_file"
    /\ fs' = [fs EXCEPT !["dst"] = fs[SrcOf(caller)], ![SrcOf(caller)] = NoFile]
    /\ result' = [result EXCEPT ![caller] = Done("Successfully moved")]
    /\ pc' = [pc EXCEPT ![caller] = "returned"]
    /\ UNCHANGED <<platform, args, before>>

NextRace ==
    \E caller \in Callers : CheckExists(caller) \/ CopyStep(caller) \/ MoveStep(caller)

SpecRace == InitRace /\ [][NextRace]_vars

\* C27: when the destination was not there at first and both calls have
\* returned, at most one of them reports success, and the destination holds
\* what the source of the call that succeeded held.
C27_AtMostOneSucceeds ==
    (before["dst"] = NoFile /\ \A c \in Callers : pc[c] = "returned") =>
        /\ ~(\A c \in Callers : result[c].kind = "ok")
        /\ \A c \in Callers :
              result[c].kind = "ok" => fs["dst"] = before[SrcOf(c)]

\* ------------------------------------- specification: the read-only tools
\* read_file, list_directory, search_files, get_file_info and
\* validate_json_file, each called once on a tree of files and directories.

\* pathlib: PurePath.suffix of a name
Suffix(name) ==
    LET dots == {i \in 2..Len(name) : name[i] = "."}
    IN  IF dots = {} \/ name[Len(name)] = "." THEN <<>>
        ELSE SubSeq(name, CHOOSE i \in dots : \A j \in dots : j <= i, Len(name))

Info(name, type, size, extension) ==
    [kind |-> "ok", msg |-> "info", text |-> <<>>, name |-> name, type |-> type,
     size |-> size, extension |-> extension]

\* a lookup that creates what it does not find
get_file_info_touch(f, file_path) ==
    LET path == ToolPath(file_path)
    IN  IF ~Exists(f, path) /\ IsDir(f, Parent(path))
        THEN Reply([f EXCEPT ![path] = File(<<>>)], Msg("does not exist"))
        ELSE Reply(f, Msg("does not exist"))

get_file_info(f, file_path) ==
    LET path == ToolPath(file_path)
    IN  IF ~Exists(f, path) THEN Reply(f, Msg("does not exist"))
        ELSE Reply(f, Info(Name(path), IF IsDir(f, path) THEN "directory" ELSE "file",
                           StSize(f[path]),
                           IF IsFile(f, path) THEN Suffix(NameChars(Name(path))) ELSE <<>>))

\* the paths that may hold something, and what: a directory, an empty file,
\* a file holding JSON, a file that is not UTF-8
ReadOnlyPaths ==
    {Cwd \o <<"a.t">>, Cwd \o <<".t">>, Cwd \o <<"s">>, Cwd \o <<"s", "at">>}
ReadOnlyEntries == {Absent, Directory, File(<<>>), File(<<"1">>), File(<<"xE9">>)}
ReadOnlyTrees ==
    {t \in {[p \in ListedPaths |-> IF p \in ReadOnlyPaths THEN held[p] ELSE EmptyListed[p]] :
               held \in [ReadOnlyPaths -> ReadOnlyEntries]} : WellFormed(t)}

\* the paths asked for: files, a directory, the working directory, a path
\* that holds nothing
AskedPaths ==
    {RawPath(FALSE, segs) : segs \in {<<"a.t">>, <<"s">>, <<"s", "at">>, <<Dot>>, <<"at">>}}

InitReadOnly ==
    /\ platform = "posix"
    /\ fs \in ReadOnlyTrees
    /\ before = fs
    /\ pc = "call"
    /\ \/ \E op \in {"read_file", "get_file_info", "validate_json_file"}, path \in AskedPaths :
             args = [op |-> op, path |-> path]
       \/ \E dir_path \in SearchDirs, include_hidden \in BOOLEAN, detailed \in BOOLEAN :
             args = [op |-> "list_directory", dir_path |-> dir_path,
                     include_hidden |-> include_hidden, detailed |-> detailed]
       \/ \E pattern \in SearchPatterns, directory \in SearchDirs,
             recursive \in BOOLEAN, case_sensitive \in BOOLEAN :
             args = [op |-> "search_files", pattern |-> pattern, directory |-> directory,
                     recursive |-> recursive, case_sensitive |-> case_sensitive]
    /\ result = NoResult

\* the handler has run
Served(op, r) ==
    /\ pc = "call"
    /\ args.op = op
    /\ fs' = r.fs
    /\ result' = r.ret
    /\ before' = fs
    /\ pc' = "returned"
    /\ UNCHANGED <<platform, args>>

ReadOnlyReadFile == Served("read_file", read_file(fs, args.path, "utf-8"))
ReadOnlyListDirectory ==
    Served("list_directory",
           list_directory(fs, args.dir_path, args.include_hidden, args.detailed))
ReadOnlySearchFiles ==
    Served("search_files",
           search_files(fs, args.pattern, args.directory, args.recursive,
                        args.case_sensitive))
GetFileInfo == Served("get_file_info", get_file_info(fs, args.path))
ReadOnlyValidateJsonFile ==
    Served("validate_json_file", validate_json_file(fs, args.path))

NextReadOnly ==
    \/ ReadOnlyReadFile \/ ReadOnlyListDirectory \/ ReadOnlySearchFiles
    \/ GetFileInfo \/ ReadOnlyValidateJsonFile

SpecReadOnly == InitReadOnly /\ [][NextReadOnly]_vars

\* C30: after a call of a read-only tool, whether it returned a result or an
\* error, every path holds what it held before the call.
C30_ReadOnlyToolsChangeNothing ==
    pc = "returned" => fs = before

\* a call that failed on a file that is there
C30_Witness ==
    /\ pc = "returned"
    /\ args.op = "validate_json_file"
    /\ result = Msg("Invalid JSON")
    /\ IsFile(fs, ToolPath(args.path))

====
